---- MODULE Spec2Model ----
(***************************************************************************)
(* Ingestion and retrieval of repository chunks (backend/ingest_pipeline.py *)
(* and backend/security_assessment.py) over an Elasticsearch index.         *)
(*                                                                          *)
(* Spec      : the index manager and the ingestion run behind /api/ingest, *)
(*             one action per external call of a run.                      *)
(* ReadSpec  : the readers (search_similar_chunks, _fetch_chunks) on a     *)
(*             store no run is changing, one action per call, the store,   *)
(*             the inputs and the store's failures drawn from bounded sets.*)
(***************************************************************************)
EXTENDS Integers, Sequences, FiniteSets, TLC

VARIABLES
    es,                    \* the Elasticsearch index: exists, embedding mapping, docs
    openai_api_key,        \* config.OPENAI_API_KEY is set
    openai_available,      \* OPENAI_AVAILABLE (langchain_openai imported)
    pc,                    \* position of the ingestion run
    owner_repo,            \* (owner, repo) of the current run
    clock,                 \* int(time.time()) of the current run
    files,                 \* result of get_repo_files
    todo,                  \* file tasks whose future has not been collected yet
    all_chunks,            \* all_chunks
    all_chunk_metadata,    \* all_chunk_metadata: (file_path, metadata)
    idx,                   \* position of the batching loop in all_chunks
    current_batch,         \* current_batch
    current_batch_tokens,  \* current_batch_tokens
    embeddings,            \* embeddings
    submitted,             \* history: every text list passed to embed_documents, with the provider's answer
    outcome,               \* how the last run ended inside ingest_github_repo
    response,              \* what the /api/ingest handler answered for the last run
    purged,                \* history: what the purge step of the current run did
    skipped,               \* history: the files of the current run that gave no chunks
    bulk_result,           \* history: how es.bulk of the current run ended
    prev_run,              \* history: the run before the current one
    before,                \* history: es when the current run started
    workers,               \* the file tasks of the pool: queued, running, finished with an outcome, collected
    call                   \* the read-only call in progress and what it returned

vars == <<es, openai_api_key, openai_available, pc, owner_repo, clock, files, todo,
          all_chunks, all_chunk_metadata, idx, current_batch, current_batch_tokens,
          embeddings, submitted, outcome, response, purged, skipped, bulk_result,
          prev_run, before, workers, call>>

runVars == <<pc, owner_repo, clock, files, todo, all_chunks, all_chunk_metadata, idx,
             current_batch, current_batch_tokens, embeddings, submitted, outcome,
             response, purged, skipped, bulk_result, prev_run, before, workers>>

cfgVars == <<openai_api_key, openai_available>>

----------------------------------------------------------------------------
(* Bounds *)

\* number of ingestion runs in a behaviour
MaxRuns == 2

----------------------------------------------------------------------------
(* Program constants *)

EMBEDDING_DIM == 1536

MAX_TOKENS_PER_REQUEST == 250000

\* the provider's real per-request limit: MAX_TOKENS_PER_REQUEST is set to
\* "leave 50k tokens buffer" under it
PROVIDER_TOKEN_LIMIT == MAX_TOKENS_PER_REQUEST + 50000

----------------------------------------------------------------------------
(* Sequence helpers *)

Range(s) == {s[i] : i \in 1..Len(s)}

Min(a, b) == IF a < b THEN a ELSE b

Max(a, b) == IF a > b THEN a ELSE b

----------------------------------------------------------------------------
(* The index: mapping of the embedding field and documents *)

NoField == [type |-> "none", dims |-> 0]

DenseVector == [type |-> "dense_vector", dims |-> EMBEDDING_DIM]

\* what dynamic mapping gives a list of floats
FloatField == [type |-> "float", dims |-> 0]

\* the mapping tests/elasticsearch_test.py creates
Dense768 == [type |-> "dense_vector", dims |-> 768]

EmbeddingFields == {NoField, DenseVector, FloatField, Dense768}

\* INDEX_DEFINITION, as far as ensure_index inspects it
INDEX_DEFINITION == DenseVector

\* path_keyword: file_path was mapped dynamically, as text with a .keyword
\* subfield; INDEX_DEFINITION maps it as keyword, without one
NoIndex == [exists |-> FALSE, embedding |-> NoField, path_keyword |-> FALSE, docs |-> {}]

\* es.indices.create(index=INDEX_NAME, body=INDEX_DEFINITION)
indices_create(e) ==
    [exists |-> TRUE, embedding |-> INDEX_DEFINITION, path_keyword |-> FALSE, docs |-> {}]

\* es.indices.put_mapping(... 'embedding': dense_vector, EMBEDDING_DIM)
indices_put_mapping(e) == [e EXCEPT !.embedding = DenseVector]

\* es.indices.delete(index=INDEX_NAME)
indices_delete(e) == NoIndex

\* lines 96-103: the embedding field is a dense_vector of EMBEDDING_DIM dimensions
Valid(e) == e.exists /\ e.embedding.type = "dense_vector" /\ e.embedding.dims = EMBEDDING_DIM

\* A read-only probe that forgets the recreate_if_invalid gate (mutant).
ensure_index_ungated(e, recreate_if_invalid, fail) ==
    LET Ret(x, v) == [es |-> x, ret |-> v, raised |-> FALSE]
    IN  IF ~e.exists THEN Ret(indices_create(e), TRUE)
        ELSE IF e.embedding = NoField THEN Ret(indices_put_mapping(e), TRUE)
        ELSE IF e.embedding.type # "dense_vector" \/ e.embedding.dims # EMBEDDING_DIM
             THEN Ret(indices_create(indices_delete(e)), TRUE)
        ELSE Ret(e, TRUE)

\* An index manager that recreates the index whenever the field is not as
\* expected, also when it is only missing (mutant).
ensure_index_recreates(e, recreate_if_invalid, fail) ==
    LET Ret(x, v) == [es |-> x, ret |-> v, raised |-> FALSE]
    IN  IF ~recreate_if_invalid
        THEN Ret(e, e.exists /\ e.embedding = DenseVector)
        ELSE IF e.exists /\ e.embedding = DenseVector THEN Ret(e, TRUE)
        ELSE Ret(indices_create(indices_delete(e)), TRUE)

\* ensure_index(es, recreate_if_invalid): fail is the ordinal of the es call
\* that raises (0: none does).  The result is the index afterwards, the
\* returned value and whether the exception left ensure_index.
ensure_index(e, recreate_if_invalid, fail) ==
    LET Ret(x, v) == [es |-> x, ret |-> v, raised |-> FALSE]
        Exc(x) == IF recreate_if_invalid
                  THEN [es |-> x, ret |-> FALSE, raised |-> TRUE]
                  ELSE [es |-> x, ret |-> FALSE, raised |-> FALSE]
    IN  IF fail = 1 THEN Exc(e)
        ELSE IF ~e.exists THEN
            IF recreate_if_invalid
            THEN (IF fail = 2 THEN Exc(e) ELSE Ret(indices_create(e), TRUE))
            ELSE Ret(e, FALSE)
        ELSE IF fail = 2 THEN Exc(e)
        ELSE IF e.embedding = NoField THEN
            IF recreate_if_invalid
            THEN (IF fail = 3 THEN Exc(e) ELSE Ret(indices_put_mapping(e), TRUE))
            ELSE Ret(e, FALSE)
        ELSE IF e.embedding.type # "dense_vector" \/ e.embedding.dims # EMBEDDING_DIM THEN
            IF recreate_if_invalid
            THEN (IF fail = 3 THEN Exc(e)
                  ELSE IF fail = 4 THEN Exc(indices_delete(e))
                  ELSE Ret(indices_create(indices_delete(e)), TRUE))
            ELSE Ret(e, FALSE)
        ELSE Ret(e, TRUE)

\* which es call of ensure_index raises
FailPoints == 0..4

----------------------------------------------------------------------------
(* The code host: repositories, their files and the chunks the splitters    *)
(* give for each file.  The character splitters cut at chunk_size=1000; the *)
(* JSON splitter keeps a string value whole, so the chunks of a .json file  *)
(* can be of any length.  Their long string values are abbreviated here     *)
(* ("FFFF"); estimate_tokens and provider_tokens count the whole texts.     *)

RepoA == <<"o1", "r1">>
RepoB == <<"o1", "r2">>
RepoC == <<"o2", "r1">>
RepoD == <<"o2", "r2">>

Repos == {RepoA, RepoB, RepoC, RepoD}

\* a repository with more files than the pool has workers
RepoP == <<"o3", "pool">>

PoolFiles == <<"m1.py", "m2.py", "m3.py", "m4.py", "m5.py", "m6.py", "m7.py", "m8.py">>

Pad10 == "# pinned: "

Pad50 == Pad10 \o Pad10 \o Pad10 \o Pad10 \o Pad10

\* one hundred characters
Pad100 == Pad50 \o Pad50

TextF == "{\"f\": \"FFFF\"}"
TextG == "{\"g\": \"GGGG\"}"
TextTitle == "# Title"
TextBlob == "{\"blob\": \"AAAA\"}"
TextFlask == Pad100 \o "flask==1.0"
TextRequests == Pad100 \o "requests==2.0"
TextData == "{\"data\": \"BBBB\"}"
TextH == "def h(): pass"
TextOld == "{\"old\": 1}"

\* get_repo_files(owner, repo)
get_repo_files(or) ==
    IF or = RepoA THEN <<"data.json", "README.md">>
    ELSE IF or = RepoB THEN <<"data.json", "requirements.txt">>
    ELSE IF or = RepoC THEN <<"data.json", "lib.py">>
    ELSE IF or = RepoP THEN PoolFiles
    ELSE <<>>

\* the chunks process_file_chunks returns for a file whose content was fetched
split_file(or, file_path) ==
    IF or = RepoA /\ file_path = "data.json" THEN <<TextF, TextG>>
    ELSE IF or = RepoA /\ file_path = "README.md" THEN <<TextTitle>>
    ELSE IF or = RepoB /\ file_path = "data.json" THEN <<TextBlob>>
    ELSE IF or = RepoB /\ file_path = "requirements.txt" THEN <<TextFlask, TextRequests>>
    ELSE IF or = RepoC /\ file_path = "data.json" THEN <<TextData>>
    ELSE IF or = RepoC /\ file_path = "lib.py" THEN <<TextH>>
    ELSE IF or = RepoP /\ file_path = "m1.py" THEN <<"import m2", "def m1(): pass">>
    ELSE IF or = RepoP THEN <<"# " \o file_path>>
    ELSE <<>>

\* estimate_tokens(text), lines 439-448: the count of the whole text for the
\* abbreviated chunks, else the fallback max(1, len(text) // 3)
estimate_tokens(text) ==
    IF text \in {TextF, TextG} THEN 125000
    ELSE IF text = TextBlob THEN 260000
    ELSE IF text = TextData THEN 200000
    ELSE Max(1, Len(text) \div 3)

\* what the provider counts for a text: the estimate can be under it
provider_tokens(text) ==
    IF text \in {TextF, TextG} THEN 200000
    ELSE IF text = TextData THEN 310000
    ELSE estimate_tokens(text)

RECURSIVE EstimatedSum(_)
EstimatedSum(texts) ==
    IF texts = <<>> THEN 0 ELSE estimate_tokens(Head(texts)) + EstimatedSum(Tail(texts))

RECURSIVE ProviderSum(_)
ProviderSum(texts) ==
    IF texts = <<>> THEN 0 ELSE provider_tokens(Head(texts)) + ProviderSum(Tail(texts))

\* A file task that hands back the first chunk of a file whose processing
\* failed (mutant).
process_file_chunks_partial(or, file_path, got) ==
    IF got = "text" THEN split_file(or, file_path)
    ELSE SubSeq(split_file(or, file_path), 1, Min(1, Len(split_file(or, file_path))))

\* process_file_chunks(owner, repo, file_path): got is what fetching the
\* content gave: "text", "empty" (empty or undecodable) or "error" (raised)
process_file_chunks(or, file_path, got) ==
    IF got = "text" THEN split_file(or, file_path) ELSE <<>>

FetchOutcomes == {"text", "empty", "error"}

\* content[:100]
content_prefix(text) == SubSeq(text, 1, Min(100, Len(text)))

\* generate_chunk_id: the md5 of "owner/repo/file_path/content[:100]", taken
\* as injective on the string
generate_chunk_id(owner, repo, file_path, content) ==
    <<owner, repo, file_path, content_prefix(content)>>

\* embeddings_model.embed_documents([text])[0]: the vector of a text
vector_of(text) == <<"vector", text>>

----------------------------------------------------------------------------
(* The embedding provider and the batching loop *)

\* embed_documents(texts): transient says the call fails for another reason
\* than the token limit
embed_documents(texts, transient) ==
    IF transient THEN "error"
    ELSE IF ProviderSum(texts) > PROVIDER_TOKEN_LIMIT THEN "max_tokens_per_request"
    ELSE "ok"

\* A provider answer whose vectors come back in the reverse order of the
\* texts (mutant).
Vectors_reversed(texts) == [i \in 1..Len(texts) |-> vector_of(texts[Len(texts) + 1 - i])]

\* the vectors of an accepted call, one per text, in the order of the texts
Vectors(texts) == [i \in 1..Len(texts) |-> vector_of(texts[i])]

\* the sub-batches of a rejected batch: range(0, len, max(1, len // 2))
sub_batches(batch) ==
    LET size == Max(1, Len(batch) \div 2)
        n == (Len(batch) + size - 1) \div size
    IN  [k \in 1..n |-> SubSeq(batch, (k - 1) * size + 1, Min(k * size, Len(batch)))]

\* the sub-batch loop: the calls made (part tells a call for a sub-batch
\* from a call for a batch), the vectors gained and whether every call
\* succeeded; the first failing call ends the loop with its exception
RECURSIVE embed_sub_batches(_, _, _)
embed_sub_batches(subs, k, failAt) ==
    IF k > Len(subs) THEN [ok |-> TRUE, vecs |-> <<>>, calls |-> <<>>]
    ELSE LET ans == embed_documents(subs[k], failAt = k)
             me == [texts |-> subs[k], answer |-> ans, part |-> TRUE]
         IN  IF ans # "ok" THEN [ok |-> FALSE, vecs |-> <<>>, calls |-> <<me>>]
             ELSE LET rest == embed_sub_batches(subs, k + 1, failAt)
                  IN  [ok |-> rest.ok,
                       vecs |-> Vectors(subs[k]) \o rest.vecs,
                       calls |-> <<me>> \o rest.calls]

\* lines 459-477: embed a closed batch; failAt = 1 makes the call for the
\* batch fail transiently, failAt = 1 + k the call for its k-th sub-batch
flush_batch(batch, failAt) ==
    LET ans == embed_documents(batch, failAt = 1)
        me == [texts |-> batch, answer |-> ans, part |-> FALSE]
    IN  IF ans = "ok" THEN [ok |-> TRUE, vecs |-> Vectors(batch), calls |-> <<me>>]
        ELSE IF ans = "max_tokens_per_request"
        THEN LET r == embed_sub_batches(sub_batches(batch), 1, failAt - 1)
             IN  [ok |-> r.ok, vecs |-> r.vecs, calls |-> <<me>> \o r.calls]
        ELSE [ok |-> FALSE, vecs |-> <<>>, calls |-> <<me>>]

\* A final step that goes on to the bulk upsert without the vectors of the
\* last batch (mutant).
final_batch_unembedded(batch, failAt) ==
    [ok |-> TRUE, vecs |-> <<>>,
     calls |-> <<[texts |-> batch, answer |-> "error", part |-> FALSE]>>]

\* lines 486-490: the final batch is embedded with no handler of its own
final_batch(batch, failAt) ==
    LET ans == embed_documents(batch, failAt = 1)
    IN  [ok |-> ans = "ok",
         vecs |-> IF ans = "ok" THEN Vectors(batch) ELSE <<>>,
         calls |-> <<[texts |-> batch, answer |-> ans, part |-> FALSE]>>]

\* A batching loop that closes the batch as soon as the next chunk would
\* bring it to the ceiling (mutant).
must_close_at_ceiling(tokens, chunk_tokens, batch) ==
    tokens + chunk_tokens >= MAX_TOKENS_PER_REQUEST /\ batch # <<>>

\* line 458: close the current batch before adding this chunk
must_close(tokens, chunk_tokens, batch) ==
    tokens + chunk_tokens > MAX_TOKENS_PER_REQUEST /\ batch # <<>>

\* which provider call of one loop step fails transiently (0: none)
FailCalls == 0..3

----------------------------------------------------------------------------
(* Documents and the store operations *)

\* A document that takes its path from the file collected first (mutant).
document_first_path(or, i, chunks, metas, vecs, timestamp) ==
    [repo_owner |-> or[1], repo_name |-> or[2],
     file_path |-> metas[1][1], content |-> chunks[i], metadata |-> metas[i][2],
     embedding |-> vecs[i],
     chunk_id |-> generate_chunk_id(or[1], or[2], metas[1][1], chunks[i]),
     timestamp |-> timestamp]

\* lines 505-514: the document of the i-th (chunk, embedding) pair
document(or, i, chunks, metas, vecs, timestamp) ==
    [repo_owner |-> or[1], repo_name |-> or[2],
     file_path |-> metas[i][1], content |-> chunks[i], metadata |-> metas[i][2],
     embedding |-> vecs[i],
     chunk_id |-> generate_chunk_id(or[1], or[2], metas[i][1], chunks[i]),
     timestamp |-> timestamp]

\* zip(all_chunks, embeddings)
bulk_actions(or, chunks, metas, vecs, timestamp) ==
    [i \in 1..Min(Len(chunks), Len(vecs)) |-> document(or, i, chunks, metas, vecs, timestamp)]

\* An index operation that adds a document without replacing the one stored
\* under the same _id (mutant).
index_doc_append(docs, d) == docs \cup {d}

\* {"index": {"_id": chunk_id}}: the document replaces the one stored under its _id
index_doc(docs, d) == {x \in docs : x.chunk_id # d.chunk_id} \cup {d}

\* es.bulk(body=bulk_actions): the items are applied in order, those in failed are rejected
RECURSIVE bulk(_, _, _, _)
bulk(docs, actions, i, failed) ==
    IF i > Len(actions) THEN docs
    ELSE bulk(IF i \in failed THEN docs ELSE index_doc(docs, actions[i]), actions, i + 1, failed)

\* A delete query with owner and name swapped (mutant).
delete_query_swapped(d, or) == d.repo_owner = or[2] /\ d.repo_name = or[1]

\* A delete query that matches on the repository name alone (mutant).
delete_query_name_only(d, or) == d.repo_name = or[2]

\* lines 359-368: the delete query: term repo_owner and term repo_name
delete_query(d, or) == d.repo_owner = or[1] /\ d.repo_name = or[2]

\* A delete_by_query that acknowledges and deletes nothing (mutant).
delete_by_query_keeps(docs, or) == docs

\* A purge that deletes the chunks of every repository of the owner (mutant).
delete_by_query_of_owner(docs, or) == {d \in docs : d.repo_owner # or[1]}

\* es.delete_by_query(index=INDEX_NAME, body=delete_query, refresh=True)
delete_by_query(docs, or) == {d \in docs : ~delete_query(d, or)}

RepoDocs(docs, or) == {d \in docs : d.repo_owner = or[1] /\ d.repo_name = or[2]}

\* documents an earlier run left in the index
SeedDoc(or, path, text) ==
    [repo_owner |-> or[1], repo_name |-> or[2], file_path |-> path, content |-> text,
     metadata |-> 1, embedding |-> vector_of(text),
     chunk_id |-> generate_chunk_id(or[1], or[2], path, text), timestamp |-> 0]

SeedDocs ==
    {SeedDoc(RepoA, "data.json", TextOld),
     SeedDoc(RepoB, "data.json", TextBlob),
     SeedDoc(RepoC, "data.json", TextOld)}

----------------------------------------------------------------------------
(* Strings: str.lower, str.endswith and the in operator *)

\* a list comprehension, built once
List(f) == SubSeq(f, 1, Len(f))

LowerChar(c) ==
    CASE c = "A" -> "a" [] c = "B" -> "b" [] c = "C" -> "c" [] c = "D" -> "d"
      [] c = "E" -> "e" [] c = "F" -> "f" [] c = "G" -> "g" [] c = "H" -> "h"
      [] c = "I" -> "i" [] c = "J" -> "j" [] c = "K" -> "k" [] c = "L" -> "l"
      [] c = "M" -> "m" [] c = "N" -> "n" [] c = "O" -> "o" [] c = "P" -> "p"
      [] c = "Q" -> "q" [] c = "R" -> "r" [] c = "S" -> "s" [] c = "T" -> "t"
      [] c = "U" -> "u" [] c = "V" -> "v" [] c = "W" -> "w" [] c = "X" -> "x"
      [] c = "Y" -> "y" [] c = "Z" -> "z" [] OTHER -> c

RECURSIVE Lower(_)
Lower(str) ==
    IF Len(str) <= 1 THEN LowerChar(str)
    ELSE Lower(SubSeq(str, 1, Len(str) \div 2))
         \o Lower(SubSeq(str, Len(str) \div 2 + 1, Len(str)))

EndsWith(str, suffix) ==
    /\ Len(str) >= Len(suffix)
    /\ SubSeq(str, Len(str) - Len(suffix) + 1, Len(str)) = suffix

Contains(str, part) ==
    \E i \in 1..(Len(str) - Len(part) + 1) : SubSeq(str, i, i + Len(part) - 1) = part

----------------------------------------------------------------------------
(* security_assessment.py: the tables and the ranking stages.  A score is   *)
(* held in thousandths, a boost multiplier in tenths.                       *)

SMALL_REPO_THRESHOLD == 50
MEDIUM_REPO_THRESHOLD == 500
SMALL_REPO_CHUNK_LIMIT == 100
MEDIUM_REPO_CHUNK_LIMIT == 75
LARGE_REPO_CHUNK_LIMIT == 50

HIGH_RISK_FILE_PATTERNS ==
    <<"auth", "login", "session", "jwt", "oauth", "token", "credential",
      "crypto", "encrypt", "decrypt", "hash", "sign", "cipher", "key",
      "sql", "query", "db", "database", "migration", "schema",
      "validator", "sanitize", "validate", "input", "parser",
      ".env", "config", "secret", "password", "api_key",
      "api", "endpoint", "route", "handler", "middleware">>

CRITICAL_FILE_SUFFIXES ==
    <<"package.json", "requirements.txt", "Pipfile", "pyproject.toml",
      "yarn.lock", "pnpm-lock.yaml", "Cargo.toml", "Gemfile",
      ".env", ".env.example", "docker-compose.yml", "Dockerfile",
      "config.json", "config.yaml", "config.yml", "settings.py">>

\* the number of SECURITY_QUERIES
SECURITY_QUERIES == 1..6

\* SECURITY_HEURISTIC_PATTERNS, in the order of the dict
SECURITY_HEURISTIC_PATTERNS ==
    <<[category |-> "auth",
       patterns |-> <<"authenticate", "authorize", "login", "logout", "session", "jwt",
                      "oauth", "bearer", "token">>],
      [category |-> "dangerous_functions",
       patterns |-> <<"eval(", "exec(", "system(", "subprocess", "child_process",
                      "innerHTML", "dangerouslySetInnerHTML">>],
      [category |-> "crypto",
       patterns |-> <<"encrypt", "decrypt", "hash", "md5", "sha1", "sha256", "aes", "rsa",
                      "hmac", "sign", "verify", "random">>],
      [category |-> "input_handling",
       patterns |-> <<"request.", "params", "query", "body", "input", "sanitize",
                      "validate", "escape">>],
      [category |-> "database",
       patterns |-> <<"execute", "query", "SELECT", "INSERT", "UPDATE", "DELETE", "sql",
                      "orm">>],
      [category |-> "secrets",
       patterns |-> <<"password", "secret", "key", "token", "api_key", "apikey",
                      "credentials", "aws_access">>],
      [category |-> "network",
       patterns |-> <<"http", "https", "fetch", "axios", "request", "url", "uri", "cors",
                      "tls", "ssl">>]>>

\* _calculate_chunk_limit
_calculate_chunk_limit(file_count) ==
    IF file_count < SMALL_REPO_THRESHOLD THEN SMALL_REPO_CHUNK_LIMIT
    ELSE IF file_count < MEDIUM_REPO_THRESHOLD THEN MEDIUM_REPO_CHUNK_LIMIT
    ELSE LARGE_REPO_CHUNK_LIMIT

\* _is_high_risk_file
_is_high_risk_file(file_path) ==
    \E i \in 1..Len(HIGH_RISK_FILE_PATTERNS) :
        Contains(Lower(file_path), HIGH_RISK_FILE_PATTERNS[i])

\* _is_critical_file: the lowered path against the suffixes as written
_is_critical_file(file_path) ==
    \E i \in 1..Len(CRITICAL_FILE_SUFFIXES) :
        EndsWith(Lower(file_path), CRITICAL_FILE_SUFFIXES[i])

\* the weight of a category, in tenths
category_weight(category) ==
    IF category \in {"dangerous_functions", "secrets"} THEN 3
    ELSE IF category \in {"auth", "crypto"} THEN 2
    ELSE 1

\* _calculate_heuristic_score, in tenths
\* pattern.lower() of every pattern, by category
lowered_patterns ==
    List([i \in 1..Len(SECURITY_HEURISTIC_PATTERNS) |->
             List([j \in 1..Len(SECURITY_HEURISTIC_PATTERNS[i].patterns) |->
                      Lower(SECURITY_HEURISTIC_PATTERNS[i].patterns[j])])])

_calculate_heuristic_score(content) ==
    LET content_lower == Lower(content)
        hit == {i \in 1..Len(SECURITY_HEURISTIC_PATTERNS) :
                   \E j \in 1..Len(lowered_patterns[i]) :
                       Contains(content_lower, lowered_patterns[i][j])}
        Weighing(w) == {i \in hit : category_weight(SECURITY_HEURISTIC_PATTERNS[i].category) = w}
    IN  3 * Cardinality(Weighing(3)) + 2 * Cardinality(Weighing(2)) + Cardinality(Weighing(1))

\* list.sort(key=_score, reverse=True): stable, highest first
\* the chunks at the positions kept, in their order
Pick(chunks, kept) ==
    LET nth == {<<Cardinality({j \in kept : j <= i}), i>> : i \in kept}
    IN  List([k \in 1..Cardinality(kept) |-> chunks[(CHOOSE r \in nth : r[1] = k)[2]]])

\* list.sort(key=_score, reverse=True): the sort is stable, so a chunk comes
\* after the chunks of a higher score and the earlier chunks of its score
SortByScore(chunks) ==
    LET Place(i) == Cardinality({j \in 1..Len(chunks) :
                        \/ chunks[j]._score > chunks[i]._score
                        \/ chunks[j]._score = chunks[i]._score /\ j <= i})
        placed == {<<Place(i), i>> : i \in 1..Len(chunks)}
    IN  List([p \in 1..Len(chunks) |-> chunks[(CHOOSE r \in placed : r[1] = p)[2]]])

RECURSIVE Flatten(_)
Flatten(lists) ==
    IF lists = <<>> THEN <<>>
    ELSE IF Len(lists) = 1 THEN lists[1]
    ELSE Flatten(SubSeq(lists, 1, Len(lists) \div 2))
         \o Flatten(SubSeq(lists, Len(lists) \div 2 + 1, Len(lists)))

\* A merge that keeps the last chunk of a content (mutant).
KeepLast(chunks) ==
    Pick(chunks, {i \in 1..Len(chunks) :
                     \A j \in (i + 1)..Len(chunks) : chunks[j].content # chunks[i].content})

\* lines 252-258: a chunk is kept when no earlier chunk has its content
KeepFirst(chunks) ==
    Pick(chunks, {i \in 1..Len(chunks) :
                     \A j \in 1..(i - 1) : chunks[j].content # chunks[i].content})

\* _merge_and_deduplicate_chunks: hash(content) taken as injective
_merge_and_deduplicate_chunks(chunk_lists) ==
    SortByScore(KeepFirst(Flatten(chunk_lists)))

\* the multiplier of _apply_boosting, in tenths
boost_multiplier(chunk) ==
    10 + (IF _is_critical_file(chunk.file_path) THEN 5
          ELSE IF _is_high_risk_file(chunk.file_path) THEN 3 ELSE 0)
       + _calculate_heuristic_score(chunk.content)

\* _apply_boosting
_apply_boosting(chunks) ==
    SortByScore(
        List([i \in 1..Len(chunks) |->
                 ("_score" :> (chunks[i]._score * boost_multiplier(chunks[i])) \div 10)
                 @@ ("_boost_applied" :> boost_multiplier(chunks[i]))
                 @@ chunks[i]]))

CountPath(chunks, file_path) ==
    Cardinality({i \in 1..Len(chunks) : chunks[i].file_path = file_path})

\* A diversity stage that compares the count with <= (mutant).
diverse_off_by_one(chunks, max_per_file) ==
    Pick(chunks, {i \in 1..Len(chunks) :
                     \/ Cardinality({j \in 1..(i - 1) :
                            chunks[j].file_path = chunks[i].file_path}) <= max_per_file
                     \/ _is_critical_file(chunks[i].file_path)})

\* the loop of _ensure_diversity.  file_counts[p] counts the chunks of p kept
\* so far: all the earlier ones when p is critical, and the earlier ones up
\* to max_per_file when it is not, so count < max_per_file holds exactly
\* when fewer than max_per_file earlier chunks have the path.
diverse(chunks, max_per_file) ==
    Pick(chunks, {i \in 1..Len(chunks) :
                     \/ Cardinality({j \in 1..(i - 1) :
                            chunks[j].file_path = chunks[i].file_path}) < max_per_file
                     \/ _is_critical_file(chunks[i].file_path)})

\* _ensure_diversity
_ensure_diversity(chunks, max_per_file) == diverse(chunks, max_per_file)

----------------------------------------------------------------------------
(* The store's answers to searches.  What the store cannot be told from the *)
(* code (similarity scores, the order of equal hits, failures) is an        *)
(* environment drawn from ReadEnvs.                                         *)

\* number of similarity scorings a retrieval is tried under
NumScorings == 2

ReadEnvs ==
    [trouble : {"none", "exists", "embed", "search"},
     k : 1..NumScorings,
     fail : {0, 1, 2}]

\* the position of a document in the store's own order
Key(d) == Len(d.content) * 31 + Len(d.file_path)

\* cosineSimilarity(query_vector, 'embedding') + 1.0 of query q under scoring k
similarity(k, q, d) == ((Key(d) * (q + 2 * k)) % 17) * 100 + 200

\* the first n of the scored documents S, highest score first; equal scores
\* in the store's own order, which scoring k fixes (Key is injective on the
\* documents of a store)
TopHits(S, k, n) ==
    LET Before(x, y) ==
            \/ x.score > y.score
            \/ x.score = y.score
               /\ (IF k = 1 THEN Key(x.doc) <= Key(y.doc) ELSE Key(x.doc) >= Key(y.doc))
        Place(x) == Cardinality({y \in S : Before(y, x)})
        placed == {<<Place(x), x>> : x \in S}
    IN  List([p \in 1..Min(n, Cardinality(S)) |-> (CHOOSE r \in placed : r[1] = p)[2]])

\* "_source": {"includes": [file_path, content, repo_owner, repo_name, metadata]}
Source(d) ==
    [file_path |-> d.file_path, content |-> d.content, repo_owner |-> d.repo_owner,
     repo_name |-> d.repo_name, metadata |-> d.metadata]

WithScore(chunk, score) == ("_score" :> score) @@ chunk

\* {"exists": {"field": "embedding"}}
HasEmbedding(d) == d.embedding # <<>>

\* _get_repo_file_count: the cardinality of "file_path.keyword", a field the
\* index has only where file_path was mapped dynamically
_get_repo_file_count(e, or, env) ==
    IF env.trouble = "search" \/ ~e.exists THEN 0
    ELSE IF e.path_keyword THEN Cardinality({d.file_path : d \in RepoDocs(e.docs, or)})
    ELSE 0

\* _semantic_search_chunks: the script fails on a field that is no
\* dense_vector of the query's dimension; every failure gives []
_semantic_search_chunks(e, or, q, limit, env) ==
    IF env.trouble = "search" \/ ~Valid(e) THEN <<>>
    ELSE LET S == {[doc |-> d, score |-> similarity(env.k, q, d)] :
                      d \in {x \in RepoDocs(e.docs, or) : HasEmbedding(x)}}
             hits == TopHits(S, env.k, limit)
         IN  List([i \in 1..Len(hits) |-> WithScore(Source(hits[i].doc), hits[i].score)])

\* the hit of the wildcard query "*suffix" with size 1: none when the search
\* raises
critical_hit(e, or, env, i) ==
    IF env.trouble = "search" THEN <<>>
    ELSE TopHits({[doc |-> d, score |-> 0] :
                     d \in {x \in RepoDocs(e.docs, or) :
                               EndsWith(x.file_path, CRITICAL_FILE_SUFFIXES[i])}},
                 env.k, 1)

\* _force_include_critical_files: the hit of a suffix is added when its path
\* is not in existing_paths, which holds the paths of existing_chunks and of
\* the hits added for earlier suffixes
_force_include_critical_files(e, or, existing_chunks, env) ==
    LET hit == List([i \in 1..Len(CRITICAL_FILE_SUFFIXES) |-> critical_hit(e, or, env, i)])
        Path(i) == hit[i][1].doc.file_path
        added == {i \in 1..Len(CRITICAL_FILE_SUFFIXES) :
                     /\ hit[i] # <<>>
                     /\ \A c \in 1..Len(existing_chunks) : existing_chunks[c].file_path # Path(i)
                     /\ \A j \in 1..(i - 1) : hit[j] # <<>> => Path(j) # Path(i)}
    IN  Pick([i \in 1..Len(CRITICAL_FILE_SUFFIXES) |->
                 IF hit[i] = <<>> THEN <<>>
                 ELSE ("_critical" :> TRUE) @@ WithScore(Source(hit[i][1].doc), 999000)],
             added)

First(chunks, n) == SubSeq(chunks, 1, Min(n, Len(chunks)))

\* the store's score of the fallback query: match_all and a wildcard
\* "*pattern*" of boost 2.0 for each of the first ten high-risk patterns
fallback_score(d) ==
    1000 + 2000 * Cardinality({i \in 1..10 : Contains(d.file_path, HIGH_RISK_FILE_PATTERNS[i])})

\* _fallback_fetch_chunks, with limit = 50
_fallback_fetch_chunks(e, or, env) ==
    LET S == {[doc |-> d, score |-> fallback_score(d)] : d \in RepoDocs(e.docs, or)}
        hits == TopHits(S, env.k, 50)
        chunks == List([i \in 1..Len(hits) |->
                      WithScore(Source(hits[i].doc),
                                1000 + 100 * _calculate_heuristic_score(hits[i].doc.content))])
    IN  First(_ensure_diversity(SortByScore(chunks), 5), 50)

\* A file-scoped query without the term filter on repo_owner (mutant).
_fetch_chunks_for_file_any_owner(e, or, file_path, env) ==
    LET S == {[doc |-> d, score |-> 0] :
                 d \in {x \in e.docs : x.repo_name = or[2] /\ x.file_path = file_path}}
        hits == TopHits(S, env.k, 10)
    IN  List([i \in 1..Len(hits) |-> Source(hits[i].doc)])

\* _fetch_chunks_for_file
_fetch_chunks_for_file(e, or, file_path, env) ==
    LET S == {[doc |-> d, score |-> 0] :
                 d \in {x \in RepoDocs(e.docs, or) : x.file_path = file_path}}
        hits == TopHits(S, env.k, 10)
    IN  List([i \in 1..Len(hits) |-> Source(hits[i].doc)])

\* lines 454-458: the internal fields are popped
Strip(chunks) ==
    [i \in 1..Len(chunks) |->
        [f \in DOMAIN chunks[i] \ {"_score", "_boost_applied", "_critical"} |-> chunks[i][f]]]

\* lines 407-408: the adaptive limit of the repository
chunk_limit(e, or, env) == _calculate_chunk_limit(_get_repo_file_count(e, or, env))

\* lines 409-421: the hits of the semantic search of every security query
chunk_lists(e, or, env) ==
    LET per_query_limit == Max(20, chunk_limit(e, or, env) \div Cardinality(SECURITY_QUERIES))
    IN  List([q \in SECURITY_QUERIES |->
                 _semantic_search_chunks(e, or, q, per_query_limit, env)])

\* lines 405-446: the embedding path of _fetch_chunks
ranked_chunks(e, or, env) ==
    LET diverse_chunks == _ensure_diversity(
                              _apply_boosting(
                                  _merge_and_deduplicate_chunks(chunk_lists(e, or, env))), 5)
        critical_chunks == _force_include_critical_files(e, or, diverse_chunks, env)
    IN  First(critical_chunks \o diverse_chunks, chunk_limit(e, or, env))

\* _fetch_chunks(owner, repo, file_path, api_key): file_path "" stands for
\* None.  The result is the list returned, or raised when an exception
\* leaves the function.
_fetch_chunks(e, or, file_path, api_key, env) ==
    LET Raised == [raised |-> TRUE, chunks |-> <<>>]
        Ret(chunks) == [raised |-> FALSE, chunks |-> chunks]
    IN  IF env.trouble = "exists" THEN Raised
        ELSE IF ~e.exists THEN Ret(<<>>)
        ELSE IF file_path # ""
             THEN (IF env.trouble = "search" THEN Raised
                   ELSE Ret(_fetch_chunks_for_file(e, or, file_path, env)))
        ELSE IF api_key /\ env.trouble # "embed"
             THEN Ret(Strip(ranked_chunks(e, or, env)))
        ELSE IF env.trouble = "search" THEN Raised
        ELSE Ret(Strip(_fallback_fetch_chunks(e, or, env)))

\* the multi_match of the query on content, file_path and repo_name
keyword_match(d, query) ==
    \/ Contains(Lower(d.content), Lower(query))
    \/ d.file_path = query
    \/ d.repo_name = query

\* A query builder that adds the vector clause whatever the capability and
\* the schema are (mutant).
should_clauses_always_vector(capable, ready) == {"script_score", "multi_match"}

\* lines 259-293: the alternatives of the query; ready is what
\* ensure_index(es, recreate_if_invalid=False) answered
should_clauses(capable, ready) ==
    (IF capable /\ ready THEN {"script_score"} ELSE {}) \cup {"multi_match"}

\* search_similar_chunks(query, repo_filter, top_k): repo_filter <<>> stands
\* for None.  The result is the index afterwards, the clauses of the query
\* sent (none when no query was sent), what ensure_index answered and the
\* list returned.
search_similar_chunks(e, query, repo_filter, top_k, env) ==
    LET Empty(x) == [es |-> x, clauses |-> {}, results |-> <<>>, probe |-> "unasked"]
        probe == ensure_index(e, FALSE, env.fail)
        capable == openai_api_key /\ openai_available
        asked == IF ~capable THEN "unasked"
                 ELSE IF probe.raised THEN "raised"
                 ELSE IF probe.ret THEN "true" ELSE "false"
        clauses == should_clauses(capable, capable /\ probe.ret)
        vector == "script_score" \in clauses
        after == IF capable THEN probe.es ELSE e
        pool == IF repo_filter = <<>> THEN after.docs ELSE RepoDocs(after.docs, repo_filter)
        matching == {d \in pool : keyword_match(d, query)}
        S == {[doc |-> d,
               score |-> (IF vector /\ HasEmbedding(d) THEN similarity(env.k, 1, d) ELSE 0)
                         + (IF d \in matching THEN 1000 ELSE 0)] :
                 d \in matching \cup (IF vector THEN {x \in pool : HasEmbedding(x)} ELSE {})}
        hits == TopHits(S, env.k, top_k)
    IN  IF env.trouble = "exists" \/ ~e.exists THEN Empty(e)
        ELSE IF vector /\ env.trouble = "embed"
             THEN [Empty(after) EXCEPT !.probe = asked]
        ELSE IF env.trouble = "search" \/ ~after.exists
             THEN [Empty(after) EXCEPT !.probe = asked]
        ELSE [es |-> after,
              clauses |-> clauses,
              probe |-> asked,
              results |-> List([i \in 1..Len(hits) |->
                              [content |-> hits[i].doc.content,
                               file_path |-> hits[i].doc.file_path,
                               repo_name |-> hits[i].doc.repo_name,
                               repo_owner |-> hits[i].doc.repo_owner,
                               metadata |-> hits[i].doc.metadata, score |-> hits[i].score,
                               chunk_id |-> hits[i].doc.chunk_id]])]

----------------------------------------------------------------------------
(* The ingestion run: ingest_github_repo called by the /api/ingest handler *)

NoCall == [op |-> "none"]

NoRun == [or |-> <<"", "">>, outcome |-> "none", clean |-> FALSE]

InitialIndexes ==
    {NoIndex} \cup
    {[exists |-> TRUE, embedding |-> f, path_keyword |-> k, docs |-> D] :
        f \in EmbeddingFields, k \in BOOLEAN, D \in {{}, SeedDocs}}

Init ==
    /\ es \in InitialIndexes
    /\ openai_api_key \in BOOLEAN
    /\ openai_available \in BOOLEAN
    /\ pc = "idle"
    /\ owner_repo = <<"", "">>
    /\ clock = 0
    /\ files = <<>>
    /\ todo = {}
    /\ all_chunks = <<>>
    /\ all_chunk_metadata = <<>>
    /\ idx = 1
    /\ current_batch = <<>>
    /\ current_batch_tokens = 0
    /\ embeddings = <<>>
    /\ submitted = <<>>
    /\ outcome = "none"
    /\ response = "none"
    /\ purged = "no"
    /\ skipped = {}
    /\ bulk_result = "none"
    /\ prev_run = NoRun
    /\ before = es
    /\ workers = <<>>
    /\ call = NoCall

\* app.py ingest, lines 69-73: "completed" unless an exception leaves
\* ingest_github_repo
ingest_response(escaped) == IF escaped THEN "error" ELSE "completed"

\* the run is clean: every step succeeded, every file gave its chunks and
\* every document was indexed
Clean ==
    outcome = "completed" /\ purged = "ok" /\ skipped = {} /\ bulk_result \in {"ok", "nothing"}

\* the run returns (or an exception leaves it) and the handler answers
Return(how, escaped) ==
    /\ pc' = "idle"
    /\ outcome' = how
    /\ response' = ingest_response(escaped)

\* POST /api/ingest: lines 345-350
StartIngest(or) ==
    /\ pc = "idle"
    /\ clock < MaxRuns
    /\ pc' = "ensure"
    /\ owner_repo' = or
    /\ clock' = clock + 1
    /\ prev_run' = [or |-> owner_repo, outcome |-> outcome, clean |-> Clean]
    /\ before' = es
    /\ workers' = <<>>
    /\ files' = <<>>
    /\ todo' = {}
    /\ all_chunks' = <<>>
    /\ all_chunk_metadata' = <<>>
    /\ idx' = 1
    /\ current_batch' = <<>>
    /\ current_batch_tokens' = 0
    /\ embeddings' = <<>>
    /\ submitted' = <<>>
    /\ outcome' = "running"
    /\ response' = "none"
    /\ purged' = "no"
    /\ skipped' = {}
    /\ bulk_result' = "none"
    /\ call' = NoCall
    /\ UNCHANGED <<es, cfgVars>>

\* lines 351-355: ensure_index(es, recreate_if_invalid=True)
EnsureStep ==
    /\ pc = "ensure"
    /\ \E fail \in FailPoints :
          LET r == ensure_index(es, TRUE, fail)
          IN  /\ es' = r.es
              /\ IF r.raised
                 THEN Return("ensure_failed", FALSE)
                 ELSE pc' = "purge" /\ UNCHANGED <<outcome, response>>
    /\ call' = NoCall
    /\ UNCHANGED <<cfgVars, owner_repo, clock, files, todo, all_chunks, all_chunk_metadata,
                   idx, current_batch, current_batch_tokens, embeddings, submitted, purged,
                   skipped, bulk_result, prev_run, before, workers>>

\* lines 357-372: the purge; a failing delete_by_query may have deleted some
\* of the matching documents before it raised
PurgeStep ==
    /\ pc = "purge"
    /\ \/ /\ es' = [es EXCEPT !.docs = delete_by_query(es.docs, owner_repo)]
          /\ purged' = "ok"
       \/ /\ \E gone \in SUBSET (es.docs \ delete_by_query(es.docs, owner_repo)) :
                es' = [es EXCEPT !.docs = es.docs \ gone]
          /\ purged' = "failed"
    /\ pc' = "capability"
    /\ call' = NoCall
    /\ UNCHANGED <<cfgVars, owner_repo, clock, files, todo, all_chunks, all_chunk_metadata,
                   idx, current_batch, current_batch_tokens, embeddings, submitted, outcome,
                   response, skipped, bulk_result, prev_run, before, workers>>

\* lines 374-385
CapabilityStep ==
    /\ pc = "capability"
    /\ IF ~openai_api_key \/ ~openai_available
       THEN Return("degraded", FALSE)
       ELSE pc' = "list" /\ UNCHANGED <<outcome, response>>
    /\ call' = NoCall
    /\ UNCHANGED <<es, cfgVars, owner_repo, clock, files, todo, all_chunks,
                   all_chunk_metadata, idx, current_batch, current_batch_tokens,
                   embeddings, submitted, purged, skipped, bulk_result, prev_run, before, workers>>

\* lines 387-406: list the files and create the pool;
\* ThreadPoolExecutor(max_workers=0) raises ValueError
ListStep ==
    /\ pc = "list"
    /\ \/ /\ Return("list_failed", FALSE)
          /\ UNCHANGED <<files, todo>>
       \/ /\ files' = get_repo_files(owner_repo)
          /\ IF Min(7, Len(files')) = 0
             THEN Return("raised", TRUE) /\ UNCHANGED todo
             ELSE /\ todo' = 1..Len(files')
                  /\ pc' = "chunking"
                  /\ UNCHANGED <<outcome, response>>
    /\ call' = NoCall
    /\ UNCHANGED <<es, cfgVars, owner_repo, clock, all_chunks, all_chunk_metadata, idx,
                   current_batch, current_batch_tokens, embeddings, submitted, purged,
                   skipped, bulk_result, prev_run, before, workers>>

\* lines 414-425: the next completed future is collected
CollectStep ==
    /\ pc = "chunking"
    /\ \E i \in todo, got \in FetchOutcomes :
          LET chunk_texts == process_file_chunks(owner_repo, files[i], got)
          IN  /\ all_chunks' = all_chunks \o chunk_texts
              /\ all_chunk_metadata' =
                    all_chunk_metadata \o [k \in 1..Len(chunk_texts) |-> <<files[i], k>>]
              /\ skipped' = IF got = "text" THEN skipped ELSE skipped \cup {files[i]}
              /\ todo' = todo \ {i}
              /\ pc' = IF todo' # {} THEN "chunking"
                       ELSE IF all_chunks' # <<>> THEN "embed" ELSE "refresh"
    /\ call' = NoCall
    /\ UNCHANGED <<es, cfgVars, owner_repo, clock, files, idx, current_batch,
                   current_batch_tokens, embeddings, submitted, outcome, response, purged,
                   bulk_result, prev_run, before, workers>>

\* lines 454-483: one iteration of the batching loop
EmbedLoopStep ==
    /\ pc = "embed"
    /\ idx <= Len(all_chunks)
    /\ LET chunk_text == all_chunks[idx]
           chunk_tokens == estimate_tokens(chunk_text)
       IN  IF must_close(current_batch_tokens, chunk_tokens, current_batch)
           THEN \E failAt \in FailCalls :
                  LET r == flush_batch(current_batch, failAt)
                  IN  /\ submitted' = submitted \o r.calls
                      /\ IF r.ok
                         THEN /\ embeddings' = embeddings \o r.vecs
                              /\ current_batch' = <<chunk_text>>
                              /\ current_batch_tokens' = chunk_tokens
                              /\ idx' = idx + 1
                              /\ UNCHANGED <<pc, outcome, response>>
                         ELSE /\ Return("embed_failed", FALSE)
                              /\ UNCHANGED <<embeddings, current_batch,
                                             current_batch_tokens, idx>>
           ELSE /\ current_batch' = Append(current_batch, chunk_text)
                /\ current_batch_tokens' = current_batch_tokens + chunk_tokens
                /\ idx' = idx + 1
                /\ UNCHANGED <<pc, outcome, response, embeddings, submitted>>
    /\ call' = NoCall
    /\ UNCHANGED <<es, cfgVars, owner_repo, clock, files, todo, all_chunks,
                   all_chunk_metadata, purged, skipped, bulk_result, prev_run, before, workers>>

\* lines 485-496: the final batch
EmbedFinalStep ==
    /\ pc = "embed"
    /\ idx > Len(all_chunks)
    /\ current_batch # <<>>
    /\ \E failAt \in 0..1 :
          LET r == final_batch(current_batch, failAt)
          IN  /\ submitted' = submitted \o r.calls
              /\ IF r.ok
                 THEN /\ embeddings' = embeddings \o r.vecs
                      /\ pc' = "bulk"
                      /\ UNCHANGED <<outcome, response>>
                 ELSE /\ Return("embed_failed", FALSE)
                      /\ UNCHANGED embeddings
    /\ call' = NoCall
    /\ UNCHANGED <<es, cfgVars, owner_repo, clock, files, todo, all_chunks,
                   all_chunk_metadata, idx, current_batch, current_batch_tokens, purged,
                   skipped, bulk_result, prev_run, before, workers>>

\* lines 498-532: the bulk upsert; it raises, reports failed items or succeeds
BulkStep ==
    /\ pc = "bulk"
    /\ LET actions == bulk_actions(owner_repo, all_chunks, all_chunk_metadata,
                                   embeddings, clock)
       IN  \/ /\ bulk_result' = "raised"
              /\ UNCHANGED es
           \/ \E failed \in SUBSET (1..Len(actions)) :
                /\ es' = [es EXCEPT !.docs = bulk(es.docs, actions, 1, failed)]
                /\ bulk_result' = IF failed = {} THEN "ok" ELSE "errors"
    /\ pc' = "refresh"
    /\ call' = NoCall
    /\ UNCHANGED <<cfgVars, owner_repo, clock, files, todo, all_chunks, all_chunk_metadata,
                   idx, current_batch, current_batch_tokens, embeddings, submitted, outcome,
                   response, purged, skipped, prev_run, before, workers>>

\* lines 534-538: the refresh, whose failure is only logged
RefreshStep ==
    /\ pc = "refresh"
    /\ Return("completed", FALSE)
    /\ bulk_result' = IF bulk_result = "none" THEN "nothing" ELSE bulk_result
    /\ call' = NoCall
    /\ UNCHANGED <<es, cfgVars, owner_repo, clock, files, todo, all_chunks,
                   all_chunk_metadata, idx, current_batch, current_batch_tokens,
                   embeddings, submitted, purged, skipped, prev_run, before, workers>>

Next ==
    \/ \E or \in Repos : StartIngest(or)
    \/ EnsureStep
    \/ PurgeStep
    \/ CapabilityStep
    \/ ListStep
    \/ CollectStep
    \/ EmbedLoopStep
    \/ EmbedFinalStep
    \/ BulkStep
    \/ RefreshStep

Spec == Init /\ [][Next]_vars

----------------------------------------------------------------------------
(* The readers: search_similar_chunks and _fetch_chunks called on a store   *)
(* that no ingestion run is changing.                                       *)

ReadDoc(or, path, text, embedded) ==
    [repo_owner |-> or[1], repo_name |-> or[2], file_path |-> path, content |-> text,
     metadata |-> 1, embedding |-> IF embedded THEN vector_of(text) ELSE <<>>,
     chunk_id |-> generate_chunk_id(or[1], or[2], path, text), timestamp |-> 0]

\* o1/r1 has more chunks of one file than a result may hold and chunks that
\* were stored before the index had an embedding field; o1/r2 has two
\* manifests of one name, stored without embeddings, and two files of equal
\* content; o2/r2, of the same name under another owner, has more chunks of
\* big.py than a file-scoped retrieval returns
ReadDocs ==
    {ReadDoc(RepoA, "big.py", t, TRUE) :
        t \in {"eval(a)", "b = 2", "password = c", "d = 4.00", "exec(e); x", "f = [6]; zz", "g"}}
    \cup {ReadDoc(RepoA, "requirements.txt", t, TRUE) :
        t \in {"flask", "requests", "numpy ", "pandas==1", "jinja2>=2.", "pyyaml==5.1"}}
    \cup {ReadDoc(RepoA, "auth/login.py", t, TRUE) : t \in {"token = h", "SELECT * FROM users"}}
    \cup {ReadDoc(RepoA, "Dockerfile", "FROM python:3", TRUE)}
    \cup {ReadDoc(RepoA, "legacy.py", t, FALSE) :
        t \in {"k", "l2", "m30", "n400", "o5000", "os.system(p)"}}
    \cup {ReadDoc(RepoB, "big.py", "eval(a);;", TRUE)}
    \cup {ReadDoc(RepoB, "api/requirements.txt", "flask", FALSE),
          ReadDoc(RepoB, "web/requirements.txt", "django", FALSE)}
    \cup {ReadDoc(RepoB, "pkg/__init__.py", "import os", TRUE),
          ReadDoc(RepoB, "tests/__init__.py", "import os", TRUE)}
    \cup {ReadDoc(RepoD, "big.py", SubSeq("zyxwvutsqpon", 1, n), FALSE) : n \in (1..12) \ {9}}

ReadIndexes ==
    {NoIndex} \cup
    {[exists |-> TRUE, embedding |-> f, path_keyword |-> k, docs |-> D] :
        f \in EmbeddingFields, k \in BOOLEAN, D \in {{}, ReadDocs}}

ReadInit ==
    /\ es \in ReadIndexes
    /\ openai_api_key \in BOOLEAN
    /\ openai_available \in BOOLEAN
    /\ pc = "idle"
    /\ owner_repo = <<"", "">>
    /\ clock = 0
    /\ files = <<>>
    /\ todo = {}
    /\ all_chunks = <<>>
    /\ all_chunk_metadata = <<>>
    /\ idx = 1
    /\ current_batch = <<>>
    /\ current_batch_tokens = 0
    /\ embeddings = <<>>
    /\ submitted = <<>>
    /\ outcome = "none"
    /\ response = "none"
    /\ purged = "no"
    /\ skipped = {}
    /\ bulk_result = "none"
    /\ prev_run = NoRun
    /\ before = es
    /\ workers = <<>>
    /\ call = NoCall

\* search_similar_chunks(query, repo_filter, top_k)
SearchSimilarChunks(query, repo_filter, top_k, env) ==
    LET r == search_similar_chunks(es, query, repo_filter, top_k, env)
    IN  /\ call = NoCall
        /\ es' = r.es
        /\ call' = [op |-> "search_similar_chunks", query |-> query,
                    repo_filter |-> repo_filter, top_k |-> top_k, env |-> env,
                    clauses |-> r.clauses, probe |-> r.probe, results |-> r.results]
        /\ UNCHANGED <<cfgVars, runVars>>

\* _fetch_chunks(owner, repo, file_path, api_key)
FetchChunks(or, file_path, api_key, env) ==
    LET r == _fetch_chunks(es, or, file_path, api_key, env)
    IN  /\ call = NoCall
        /\ call' = [op |-> "_fetch_chunks", owner_repo |-> or, file_path |-> file_path,
                    path |-> IF file_path # "" THEN "file"
                             ELSE IF api_key /\ env.trouble # "embed" THEN "embedding"
                             ELSE "fallback",
                    env |-> env, raised |-> r.raised, chunks |-> r.chunks]
        /\ UNCHANGED <<es, cfgVars, runVars>>

\* the caller takes the list returned
ReadReturn ==
    /\ call # NoCall
    /\ call' = NoCall
    /\ UNCHANGED <<es, cfgVars, runVars>>

ReadNext ==
    \/ \E query \in {"eval", "r1"}, repo_filter \in {<<>>, RepoA}, top_k \in {1, 5},
          env \in ReadEnvs :
           SearchSimilarChunks(query, repo_filter, top_k, env)
    \/ \E or \in {RepoA, RepoB, RepoD}, file_path \in {"", "big.py"}, api_key \in BOOLEAN,
          env \in {x \in ReadEnvs : x.fail = 0} :
           FetchChunks(or, file_path, api_key, env)
    \/ ReadReturn

ReadSpec == ReadInit /\ [][ReadNext]_vars

----------------------------------------------------------------------------
(* The readers on a store that holds a larger repository: more than         *)
(* SMALL_REPO_THRESHOLD files, and more embedded chunks than any limit of   *)
(* _calculate_chunk_limit.                                                  *)

RepoL == <<"o3", "mono">>

\* the repository has 2 * LargeFiles source files of ChunksPerFile chunks
\* each, and a Dockerfile
LargeFiles == 26

ChunksPerFile == 3

Alphabet == "abcdefghijklmnopqrstuvwxyz0123456789"

Reversed == "zyxwvutsrqponmlkjihgfedcba9876543210"

\* every chunk has a content of its own, and no two chunks have the lengths
\* of both content and path in common (Key)
LargeDocs ==
    UNION {{ReadDoc(RepoL, SubSeq(Alphabet, 1, n) \o ".py",
                    SubSeq(Alphabet, n, n + j - 1), TRUE),
            ReadDoc(RepoL, SubSeq(Reversed, 1, n) \o ".js",
                    SubSeq(Alphabet, n, n + j + ChunksPerFile - 1), TRUE)} :
              <<n, j>> \in (1..LargeFiles) \X (1..ChunksPerFile)}
    \cup {ReadDoc(RepoL, "Dockerfile", "FROM node:18.1", TRUE)}

LargeIndexes ==
    {[exists |-> TRUE, embedding |-> f, path_keyword |-> k, docs |-> LargeDocs] :
        f \in EmbeddingFields, k \in BOOLEAN}

LargeInit ==
    /\ es \in LargeIndexes
    /\ openai_api_key = TRUE
    /\ openai_available = TRUE
    /\ pc = "idle"
    /\ owner_repo = <<"", "">>
    /\ clock = 0
    /\ files = <<>>
    /\ todo = {}
    /\ all_chunks = <<>>
    /\ all_chunk_metadata = <<>>
    /\ idx = 1
    /\ current_batch = <<>>
    /\ current_batch_tokens = 0
    /\ embeddings = <<>>
    /\ submitted = <<>>
    /\ outcome = "none"
    /\ response = "none"
    /\ purged = "no"
    /\ skipped = {}
    /\ bulk_result = "none"
    /\ prev_run = NoRun
    /\ before = es
    /\ workers = <<>>
    /\ call = NoCall

LargeNext ==
    \/ \E file_path \in {"", "Dockerfile"}, api_key \in BOOLEAN,
          env \in {x \in ReadEnvs : x.fail = 0} :
           FetchChunks(RepoL, file_path, api_key, env)
    \/ ReadReturn

LargeSpec == LargeInit /\ [][LargeNext]_vars

----------------------------------------------------------------------------
(* The stages of the ranking pipeline applied one at a time: the merge to   *)
(* the hit lists of the security queries in an order of issue, the boosting *)
(* to a merged list, the diversity stage to a boosted list.  The hit lists  *)
(* are those of a store that holds two chunks of a Dockerfile, two of a     *)
(* manifest, two of a high-risk path and two files of equal content.        *)

RepoR == <<"o4", "rank">>

RankPool ==
    {ReadDoc(RepoR, "Dockerfile", "FROM a", TRUE),
     ReadDoc(RepoR, "Dockerfile", "RUN make b", TRUE),
     ReadDoc(RepoR, "requirements.txt", "flask", TRUE),
     ReadDoc(RepoR, "requirements.txt", "requests", TRUE),
     ReadDoc(RepoR, "auth/login.py", "eval(token)", TRUE),
     ReadDoc(RepoR, "auth/login.py", "SELECT password, key", TRUE),
     ReadDoc(RepoR, "util.py", "import os", TRUE),
     ReadDoc(RepoR, "lib.py", "import os", TRUE)}

\* the stores: the pool, or the pool without one or two of its chunks
RankIndexes ==
    {[exists |-> TRUE, embedding |-> INDEX_DEFINITION, path_keyword |-> FALSE, docs |-> D] :
        D \in {X \in SUBSET RankPool : Cardinality(X) >= Cardinality(RankPool) - 2}}

\* orders in which the lists of the six queries reach the merge: as issued,
\* reversed, rotated, the first two exchanged
RankOrders ==
    {<<1, 2, 3, 4, 5, 6>>, <<6, 5, 4, 3, 2, 1>>, <<2, 3, 4, 5, 6, 1>>, <<2, 1, 3, 4, 5, 6>>}

\* the per-query limits the lists are cut at
RankLimits == {2, 3}

RankEnv(k) == [trouble |-> "none", k |-> k, fail |-> 0]

\* the hit lists of the security queries, in the order given
hit_lists(e, order, limit, k) ==
    List([i \in 1..Len(order) |->
             _semantic_search_chunks(e, RepoR, order[i], limit, RankEnv(k))])

RankInit ==
    /\ es \in RankIndexes
    /\ openai_api_key = TRUE
    /\ openai_available = TRUE
    /\ pc = "idle"
    /\ owner_repo = <<"", "">>
    /\ clock = 0
    /\ files = <<>>
    /\ todo = {}
    /\ all_chunks = <<>>
    /\ all_chunk_metadata = <<>>
    /\ idx = 1
    /\ current_batch = <<>>
    /\ current_batch_tokens = 0
    /\ embeddings = <<>>
    /\ submitted = <<>>
    /\ outcome = "none"
    /\ response = "none"
    /\ purged = "no"
    /\ skipped = {}
    /\ bulk_result = "none"
    /\ prev_run = NoRun
    /\ before = es
    /\ workers = <<>>
    /\ call = NoCall

\* _merge_and_deduplicate_chunks(chunk_lists)
MergeAndDeduplicate(order, limit, k) ==
    /\ call = NoCall
    /\ call' = [op |-> "_merge_and_deduplicate_chunks",
                chunk_lists |-> hit_lists(es, order, limit, k),
                issued |-> hit_lists(es, <<1, 2, 3, 4, 5, 6>>, limit, k),
                chunks |-> _merge_and_deduplicate_chunks(hit_lists(es, order, limit, k))]
    /\ UNCHANGED <<es, cfgVars, runVars>>

\* _apply_boosting(chunks)
ApplyBoosting(limit, k) ==
    LET merged == _merge_and_deduplicate_chunks(hit_lists(es, <<1, 2, 3, 4, 5, 6>>, limit, k))
    IN  /\ call = NoCall
        /\ call' = [op |-> "_apply_boosting", input |-> merged,
                    chunks |-> _apply_boosting(merged)]
        /\ UNCHANGED <<es, cfgVars, runVars>>

\* _ensure_diversity(chunks, max_per_file)
EnsureDiversity(limit, k, max_per_file) ==
    LET boosted == _apply_boosting(
                       _merge_and_deduplicate_chunks(
                           hit_lists(es, <<1, 2, 3, 4, 5, 6>>, limit, k)))
    IN  /\ call = NoCall
        /\ call' = [op |-> "_ensure_diversity", input |-> boosted,
                    max_per_file |-> max_per_file,
                    chunks |-> _ensure_diversity(boosted, max_per_file)]
        /\ UNCHANGED <<es, cfgVars, runVars>>

RankNext ==
    \/ \E order \in RankOrders, limit \in RankLimits, k \in 1..NumScorings :
           MergeAndDeduplicate(order, limit, k)
    \/ \E limit \in RankLimits, k \in 1..NumScorings : ApplyBoosting(limit, k)
    \/ \E limit \in RankLimits, k \in 1..NumScorings, max_per_file \in {1, 5} :
           EnsureDiversity(limit, k, max_per_file)
    \/ ReadReturn

RankSpec == RankInit /\ [][RankNext]_vars

----------------------------------------------------------------------------
(* The chunking stage with its worker pool: a run on a repository of more   *)
(* files than workers, one run followed until every file task is collected. *)
(* Spec                                                                     *)
(* takes the completion of a task and its collection as one step; here the  *)
(* workers and the collecting thread take their own steps.                  *)

\* line 401
repo_worker_min_count == 7

\* A pool with a worker for every file (mutant).
max_workers_per_file(n) == n

\* line 402: min(repo_worker_min_count, len(files))
max_workers(n) == Min(repo_worker_min_count, n)

\* the tasks a worker is running
Running == {i \in DOMAIN workers : workers[i] = "running"}

\* what fetching and splitting a file can give: the first file of the pool
\* repository is the one that can come back empty or fail
PoolOutcomes(file_path) == IF file_path = PoolFiles[1] THEN FetchOutcomes ELSE {"text"}

PoolInit ==
    /\ es = indices_create(NoIndex)
    /\ openai_api_key = TRUE
    /\ openai_available = TRUE
    /\ pc = "idle"
    /\ owner_repo = <<"", "">>
    /\ clock = 0
    /\ files = <<>>
    /\ todo = {}
    /\ all_chunks = <<>>
    /\ all_chunk_metadata = <<>>
    /\ idx = 1
    /\ current_batch = <<>>
    /\ current_batch_tokens = 0
    /\ embeddings = <<>>
    /\ submitted = <<>>
    /\ outcome = "none"
    /\ response = "none"
    /\ purged = "no"
    /\ skipped = {}
    /\ bulk_result = "none"
    /\ prev_run = NoRun
    /\ before = es
    /\ workers = <<>>
    /\ call = NoCall

\* lines 387-410: list the files, create the pool and submit one task per
\* file; ThreadPoolExecutor(max_workers=0) raises ValueError
SubmitStep ==
    /\ pc = "list"
    /\ \/ /\ Return("list_failed", FALSE)
          /\ UNCHANGED <<files, todo, workers>>
       \/ /\ files' = get_repo_files(owner_repo)
          /\ IF max_workers(Len(files')) = 0
             THEN Return("raised", TRUE) /\ UNCHANGED <<todo, workers>>
             ELSE /\ todo' = 1..Len(files')
                  /\ workers' = [i \in 1..Len(files') |-> "queued"]
                  /\ pc' = "chunking"
                  /\ UNCHANGED <<outcome, response>>
    /\ call' = NoCall
    /\ UNCHANGED <<es, cfgVars, owner_repo, clock, all_chunks, all_chunk_metadata, idx,
                   current_batch, current_batch_tokens, embeddings, submitted, purged,
                   skipped, bulk_result, prev_run, before>>

\* a free worker of the pool takes the task that was submitted first
WorkerStart ==
    /\ pc = "chunking"
    /\ Cardinality(Running) < max_workers(Len(files))
    /\ \E i \in DOMAIN workers :
          /\ workers[i] = "queued"
          /\ \A j \in 1..(i - 1) : workers[j] # "queued"
          /\ workers' = [workers EXCEPT ![i] = "running"]
    /\ call' = NoCall
    /\ UNCHANGED <<es, cfgVars, pc, owner_repo, clock, files, todo, all_chunks,
                   all_chunk_metadata, idx, current_batch, current_batch_tokens,
                   embeddings, submitted, outcome, response, purged, skipped,
                   bulk_result, prev_run, before>>

\* process_file_chunks returns in a worker: the future is completed
WorkerFinish ==
    /\ pc = "chunking"
    /\ \E i \in Running :
          \E got \in PoolOutcomes(files[i]) : workers' = [workers EXCEPT ![i] = got]
    /\ call' = NoCall
    /\ UNCHANGED <<es, cfgVars, pc, owner_repo, clock, files, todo, all_chunks,
                   all_chunk_metadata, idx, current_batch, current_batch_tokens,
                   embeddings, submitted, outcome, response, purged, skipped,
                   bulk_result, prev_run, before>>

\* lines 414-425: as_completed yields a completed future and the collecting
\* thread appends its chunks and their metadata
CollectCompleted ==
    /\ pc = "chunking"
    /\ \E i \in todo :
          /\ workers[i] \in FetchOutcomes
          /\ LET chunk_texts == process_file_chunks(owner_repo, files[i], workers[i])
             IN  /\ all_chunks' = all_chunks \o chunk_texts
                 /\ all_chunk_metadata' =
                       all_chunk_metadata \o [k \in 1..Len(chunk_texts) |-> <<files[i], k>>]
                 /\ skipped' = IF workers[i] = "text" THEN skipped
                                ELSE skipped \cup {files[i]}
                 /\ todo' = todo \ {i}
                 /\ workers' = [workers EXCEPT ![i] = "collected"]
                 /\ pc' = IF todo' # {} THEN "chunking"
                          ELSE IF all_chunks' # <<>> THEN "embed" ELSE "refresh"
    /\ call' = NoCall
    /\ UNCHANGED <<es, cfgVars, owner_repo, clock, files, idx, current_batch,
                   current_batch_tokens, embeddings, submitted, outcome, response, purged,
                   bulk_result, prev_run, before>>

PoolNext ==
    \/ clock = 0 /\ StartIngest(RepoP)
    \/ EnsureStep
    \/ PurgeStep
    \/ CapabilityStep
    \/ SubmitStep
    \/ WorkerStart
    \/ WorkerFinish
    \/ CollectCompleted

PoolSpec == PoolInit /\ [][PoolNext]_vars

----------------------------------------------------------------------------
(* Claims about the ingestion run (Spec) *)

RunEnded == pc = "idle" /\ outcome \notin {"none", "running"}

Ids(docs) == {d.chunk_id : d \in docs}

\* C1 (as claimed): every batch passed to embed_documents has an estimated
\* token sum of at most MAX_TOKENS_PER_REQUEST, whatever the estimates of its
\* texts are.
C1_EveryBatchWithinCeiling ==
    \A i \in 1..Len(submitted) :
        EstimatedSum(submitted[i].texts) <= MAX_TOKENS_PER_REQUEST

\* C2 (as claimed): a batch the provider rejects for its token count is
\* bisected until its parts succeed or are single texts, so when a run meets
\* no other provider error than that one, every text the provider accepts on
\* its own is embedded.
C2_OverLimitBatchIsBisected ==
    (/\ RunEnded
     /\ submitted # <<>>
     /\ \A i \in 1..Len(submitted) : submitted[i].answer \in {"ok", "max_tokens_per_request"})
    => \A i \in 1..Len(all_chunks) :
          provider_tokens(all_chunks[i]) <= PROVIDER_TOKEN_LIMIT
          => vector_of(all_chunks[i]) \in Range(embeddings)

\* C3: a run that got past ensure-schema without the embedding capability has
\* attempted the purge and stops there, with no file listed, no text embedded
\* and no bulk upsert; and every run that stops after a successful purge and
\* before the bulk upsert leaves its repository with zero chunks.
C3_StopsAfterPurgeChunkless ==
    /\ (RunEnded /\ outcome # "ensure_failed" /\ ~(openai_api_key /\ openai_available))
       => (/\ outcome = "degraded"
           /\ purged \in {"ok", "failed"}
           /\ files = <<>> /\ all_chunks = <<>> /\ submitted = <<>>
           /\ bulk_result = "none")
    /\ (RunEnded /\ purged = "ok" /\ bulk_result = "none")
       => RepoDocs(es.docs, owner_repo) = {}

\* C3 witness: a degraded run has purged a repository that had chunks.
C3_Witness ==
    /\ RunEnded /\ outcome = "degraded" /\ purged = "ok"
    /\ RepoDocs(before.docs, owner_repo) # {}
    /\ RepoDocs(es.docs, owner_repo) = {}

\* C4 (as claimed): after a run has ended, in whatever way, no chunk of its
\* repository written by an earlier run is stored beside a chunk written by
\* this run.
C4_NeverMixesEpochs ==
    RunEnded =>
        ~(/\ \E d \in RepoDocs(es.docs, owner_repo) : d.timestamp = clock
          /\ \E d \in RepoDocs(es.docs, owner_repo) : d.timestamp < clock)

\* C4 (amended): after a run whose purge step succeeded has ended, every
\* chunk stored for its repository was written by this run.
C4_NoMixAfterSuccessfulPurge ==
    (RunEnded /\ purged = "ok") =>
        \A d \in RepoDocs(es.docs, owner_repo) : d.timestamp = clock

\* C4 witness: a run purged earlier chunks and its bulk upsert failed in part.
C4_Witness ==
    /\ RunEnded /\ purged = "ok" /\ bulk_result = "errors"
    /\ RepoDocs(before.docs, owner_repo) # {}
    /\ RepoDocs(es.docs, owner_repo) # {}

\* C5: no two stored documents ever share a chunk_id, and a run in which
\* every step succeeded, after such a run of the same repository, leaves the
\* same set of chunk_ids for the repository as that run left.
C5_ReingestIdempotent ==
    /\ \A d1, d2 \in es.docs : d1.chunk_id = d2.chunk_id => d1 = d2
    /\ (RunEnded /\ Clean /\ prev_run.clean /\ prev_run.or = owner_repo)
       => Ids(RepoDocs(es.docs, owner_repo)) = Ids(RepoDocs(before.docs, owner_repo))

\* C5 witness: the second of two clean runs of a repository has ended, two of
\* its chunks share their first 100 characters, and its documents replaced
\* those of the first run.
C5_Witness ==
    /\ RunEnded /\ Clean /\ prev_run.clean /\ prev_run.or = owner_repo
    /\ \E i, j \in 1..Len(all_chunks) :
          /\ i # j
          /\ all_chunks[i] # all_chunks[j]
          /\ all_chunk_metadata[i][1] = all_chunk_metadata[j][1]
          /\ content_prefix(all_chunks[i]) = content_prefix(all_chunks[j])
    /\ RepoDocs(es.docs, owner_repo) # {}
    /\ \A d \in RepoDocs(es.docs, owner_repo) : d.timestamp = clock

OtherDocs(docs, or) == docs \ RepoDocs(docs, or)

\* C6: the purge step removes no chunk of another repository, and when it
\* succeeds it removes every chunk of its own repository.
C6_DeleteExactlyTheRepository ==
    [][pc = "purge" =>
         /\ OtherDocs(es'.docs, owner_repo) = OtherDocs(es.docs, owner_repo)
         /\ es'.docs \subseteq es.docs
         /\ purged' = "ok" => RepoDocs(es'.docs, owner_repo) = {}]_vars

\* C6 witness: a purge removed the chunks of o1/r1 and left those of o1/r2
\* and o2/r1, stored under the same file path.
C6_Witness ==
    /\ pc = "capability" /\ purged = "ok" /\ owner_repo = RepoA
    /\ \E d \in before.docs : d.repo_owner = "o1" /\ d.repo_name = "r1" /\ d.file_path = "data.json"
    /\ RepoDocs(es.docs, RepoA) = {}
    /\ \E d \in es.docs : d.repo_owner = "o1" /\ d.repo_name = "r2" /\ d.file_path = "data.json"
    /\ \E d \in es.docs : d.repo_owner = "o2" /\ d.repo_name = "r1" /\ d.file_path = "data.json"

\* C8: ensure_index(recreate_if_invalid=True) raises or returns with a valid
\* index; it creates a missing index, adds a missing embedding field and
\* keeps the documents, recreates the index (and only then loses documents)
\* when the field is incompatible, and changes nothing when the index is valid.
C8_EnsureIndexRepairs ==
    [][pc = "ensure" =>
         /\ pc' = "purge" =>
               /\ Valid(es')
               /\ ~es.exists => es'.docs = {}
               /\ (es.exists /\ es.embedding = NoField) =>
                     es' = [es EXCEPT !.embedding = DenseVector]
               /\ Valid(es) => es' = es
         /\ (es.exists /\ es.embedding = NoField) => es'.docs = es.docs
         /\ Valid(es) => es' = es
         /\ es'.docs # es.docs =>
               (es.exists /\ es.embedding # NoField /\ ~Valid(es) /\ es'.docs = {})]_vars

\* C8 witness: ensure_index added the embedding field to an index that held
\* documents, and kept them.
C8_Witness ==
    /\ pc = "purge"
    /\ before.exists /\ before.embedding = NoField /\ before.docs # {}
    /\ Valid(es) /\ es.docs = before.docs

\* C9 (as claimed): a run that failed is answered with an error.
C9_FailedRunReportedAsError ==
    (RunEnded /\ outcome \in {"ensure_failed", "degraded", "list_failed", "embed_failed"})
        => response = "error"

\* the batches of the run in the order they were submitted, sub-batches aside
Batches ==
    LET top == SelectSeq(submitted, LAMBDA c : ~c.part)
    IN  List([i \in 1..Len(top) |-> top[i].texts])

\* C17: the batches submitted so far, concatenated in their order, are the
\* chunks collected up to where the loop stands, and all of them once every
\* batch is embedded; no call is made for an empty list; a batch is followed
\* by another only if the first text of that one would have brought it over
\* MAX_TOKENS_PER_REQUEST, so no two adjacent batches fit under it together.
C17_GreedyBatchesInInputOrder ==
    /\ Len(Flatten(Batches)) <= Len(all_chunks)
    /\ Flatten(Batches) = SubSeq(all_chunks, 1, Len(Flatten(Batches)))
    /\ pc = "embed" =>
          Flatten(Batches) \o current_batch = SubSeq(all_chunks, 1, idx - 1)
    /\ pc = "bulk" => Flatten(Batches) = all_chunks
    /\ \A i \in 1..Len(submitted) : submitted[i].texts # <<>>
    /\ \A i \in 1..(Len(Batches) - 1) :
          /\ EstimatedSum(Batches[i]) + estimate_tokens(Batches[i + 1][1])
                > MAX_TOKENS_PER_REQUEST
          /\ EstimatedSum(Batches[i] \o Batches[i + 1]) > MAX_TOKENS_PER_REQUEST

\* C17 witness: three chunks were embedded in two batches, the first of
\* them exactly at the ceiling.
C17_Witness ==
    /\ pc = "bulk"
    /\ Len(all_chunks) = 3
    /\ Len(Batches) = 2
    /\ EstimatedSum(Batches[1]) = MAX_TOKENS_PER_REQUEST
    /\ Flatten(Batches) = all_chunks

\* the place of a step in ingest_github_repo
StepRank(p) ==
    CASE p = "idle" -> 0 [] p = "ensure" -> 1 [] p = "purge" -> 2 [] p = "capability" -> 3
      [] p = "list" -> 4 [] p = "chunking" -> 5 [] p = "embed" -> 6 [] p = "bulk" -> 7
      [] p = "refresh" -> 8

\* the steps of a run follow each other in the order of StepRank; a chunk
\* is written by the bulk upsert only, after the purge was attempted; the
\* bulk upsert is issued once, when every chunk has its vector
StepsInOrder ==
    /\ pc' # pc => (pc' = "idle" \/ StepRank(pc') > StepRank(pc))
    /\ pc' = "purge" => pc = "ensure"
    /\ (pc = "ensure" /\ outcome' = "ensure_failed") => (pc' = "idle" /\ purged' = "no")
    /\ es'.docs \ es.docs # {} => (pc = "bulk" /\ purged \in {"ok", "failed"})
    /\ pc = "bulk" =>
          /\ bulk_result = "none" /\ pc' # "bulk"
          /\ Len(embeddings) = Len(all_chunks)
          /\ idx = Len(all_chunks) + 1

\* C18 (as claimed): the steps are in order, and a run whose ensure-schema
\* step raises ends there with no chunk deleted or written.
C18_FixedStepOrder ==
    [][/\ StepsInOrder
       /\ (pc = "ensure" /\ outcome' = "ensure_failed") => es'.docs = es.docs]_vars

\* C18 (amended): the steps are in order, and a run whose ensure-schema step
\* raises ends there with nothing purged and no chunk written; chunks are
\* lost in it only when ensure_index had deleted an index whose embedding
\* field is incompatible and could not create it again.
C18_StepOrderRecreationAside ==
    [][/\ StepsInOrder
       /\ (pc = "ensure" /\ outcome' = "ensure_failed") =>
             \/ es' = es
             \/ /\ es.exists /\ es.embedding # NoField /\ ~Valid(es)
                /\ es' = NoIndex]_vars

\* C18 witness: a run went through every step and its bulk upsert wrote the
\* chunks of every batch.
C18_Witness ==
    /\ RunEnded /\ outcome = "completed" /\ purged = "ok" /\ bulk_result = "ok"
    /\ Len(submitted) >= 2
    /\ \E d \in RepoDocs(es.docs, owner_repo) : d.timestamp = clock

\* the run that ended at ensure-schema after the index was deleted
C18_RecreationFailedReached ==
    /\ RunEnded /\ outcome = "ensure_failed" /\ purged = "no"
    /\ before.docs # {} /\ es = NoIndex

\* the collected chunks that came from file_path, in the order collected
FileChunks(file_path) ==
    Pick(all_chunks, {i \in 1..Len(all_chunks) : all_chunk_metadata[i][1] = file_path})

\* every file task was collected
AllCollected ==
    /\ files # <<>> /\ todo = {}
    /\ pc \in {"embed", "bulk", "refresh"} \/ outcome \in {"completed", "embed_failed"}

\* a skipped file gave no chunk and every other file gave all of its chunks;
\* a run that then embedded every batch has a vector for each of them, and
\* when its bulk upsert reported no failure the store holds, under the id of
\* each of them, a document written by this run for that file
OtherFilesUnaffected ==
    /\ AllCollected =>
          \A i \in 1..Len(files) :
              FileChunks(files[i]) = IF files[i] \in skipped THEN <<>>
                                     ELSE split_file(owner_repo, files[i])
    /\ (AllCollected /\ (pc \in {"bulk", "refresh"} \/ outcome = "completed")) =>
          Len(embeddings) = Len(all_chunks)
    /\ (AllCollected /\ bulk_result = "ok") =>
          \A i \in 1..Len(all_chunks) :
              \E d \in RepoDocs(es.docs, owner_repo) :
                  /\ d.chunk_id = generate_chunk_id(owner_repo[1], owner_repo[2],
                                                    all_chunk_metadata[i][1], all_chunks[i])
                  /\ d.file_path = all_chunk_metadata[i][1]
                  /\ d.timestamp = clock

RunDocs == {d \in RepoDocs(es.docs, owner_repo) : d.timestamp = clock}

\* C20: the i-th accumulated vector is the vector of the i-th collected
\* chunk, whether its batch was embedded whole or in sub-batches; once the
\* embedding succeeded there are as many vectors as chunks, and every
\* document the run writes holds the vector of its own content with the
\* path and metadata that were collected with that chunk.
C20_VectorsInChunkOrder ==
    /\ Len(embeddings) <= Len(all_chunks)
    /\ \A i \in 1..Len(embeddings) : embeddings[i] = vector_of(all_chunks[i])
    /\ Len(all_chunk_metadata) = Len(all_chunks)
    /\ (pc \in {"bulk", "refresh"} \/ outcome = "completed") =>
          Len(embeddings) = Len(all_chunks)
    /\ \A d \in RunDocs :
          /\ d.embedding = vector_of(d.content)
          /\ \E i \in 1..Len(all_chunks) :
                /\ all_chunks[i] = d.content
                /\ all_chunk_metadata[i] = <<d.file_path, d.metadata>>
                /\ d.content \in Range(split_file(owner_repo, d.file_path))

\* C20 witness: a batch was rejected for its size and embedded in
\* sub-batches, another was embedded whole, and the run stored a document
\* for each chunk.
C20_Witness ==
    /\ RunEnded /\ outcome = "completed" /\ bulk_result = "ok"
    /\ \E k \in 1..Len(submitted) : submitted[k].part /\ submitted[k].answer = "ok"
    /\ \E k \in 1..Len(submitted) : submitted[k].answer = "max_tokens_per_request"
    /\ Len(all_chunks) >= 3
    /\ Cardinality(RunDocs) = Len(all_chunks)

\* C28 (as claimed): no step of a run deletes or changes a chunk stored for
\* another repository, whatever the index was when the run started.
C28_OtherRepositoriesUntouched ==
    [][pc # "idle" =>
         OtherDocs(es'.docs, owner_repo) = OtherDocs(es.docs, owner_repo)]_vars

\* C28 (amended): no step of a run deletes or changes a chunk stored for
\* another repository, except the ensure-schema step on an index whose
\* embedding field is of the wrong type or dimensionality, which deletes
\* the index with the chunks of every repository.
C28_OtherRepositoriesUntouchedButRecreation ==
    [][pc # "idle" =>
         \/ OtherDocs(es'.docs, owner_repo) = OtherDocs(es.docs, owner_repo)
         \/ /\ pc = "ensure"
            /\ es.exists /\ es.embedding # NoField /\ ~Valid(es)
            /\ es'.docs = {}]_vars

\* C28 witness: a run purged and wrote the chunks of its repository in a
\* store that holds chunks of other repositories, and those are as they
\* were.
C28_Witness ==
    /\ RunEnded /\ outcome = "completed" /\ purged = "ok" /\ bulk_result = "ok"
    /\ RepoDocs(before.docs, owner_repo) # {} /\ RunDocs # {}
    /\ OtherDocs(before.docs, owner_repo) # {}
    /\ OtherDocs(es.docs, owner_repo) = OtherDocs(before.docs, owner_repo)

\* a run recreated the index and went on to the end: the chunks of the
\* other repositories are gone
C28_RecreationReached ==
    /\ RunEnded /\ outcome = "completed" /\ bulk_result = "ok"
    /\ before.exists /\ ~Valid(before) /\ OtherDocs(before.docs, owner_repo) # {}
    /\ OtherDocs(es.docs, owner_repo) = {}

\* C27: a run on a repository whose file listing is empty ends normally:
\* no exception leaves ingest_github_repo, no text was passed to the
\* embedding provider and the store holds no chunk of the repository.
C27_EmptyRepositoryFinishesNormally ==
    (/\ RunEnded /\ owner_repo \in Repos /\ get_repo_files(owner_repo) = <<>>
     /\ outcome \notin {"ensure_failed", "degraded", "list_failed"}) =>
        /\ outcome = "completed" /\ response = "completed"
        /\ submitted = <<>>
        /\ RepoDocs(es.docs, owner_repo) = {}

\* C29: after a run in which every step succeeded the store holds as many
\* chunks of the repository as the chunking produced, different chunks of
\* the run having different chunk_ids.
C29_StoredCountEqualsProducedCount ==
    (RunEnded /\ Clean) =>
        /\ Cardinality(RepoDocs(es.docs, owner_repo)) = Len(all_chunks)
        /\ \A i, j \in 1..Len(all_chunks) :
              i # j =>
                  generate_chunk_id(owner_repo[1], owner_repo[2],
                                    all_chunk_metadata[i][1], all_chunks[i])
                  # generate_chunk_id(owner_repo[1], owner_repo[2],
                                      all_chunk_metadata[j][1], all_chunks[j])

\* what the claim compares of a stored document
Stored(d) ==
    [chunk_id |-> d.chunk_id, file_path |-> d.file_path, content |-> d.content,
     embedding |-> d.embedding]

\* what a run without failures leaves for a repository, told from the file
\* listing alone: for every file the documents of its chunks, the later
\* chunk of an id replacing the earlier one
ListedDocs(or) ==
    LET F == get_repo_files(or)
        Id(i, k) == generate_chunk_id(or[1], or[2], F[i], split_file(or, F[i])[k])
    IN  {[chunk_id |-> Id(p[1], p[2]), file_path |-> F[p[1]],
          content |-> split_file(or, F[p[1]])[p[2]],
          embedding |-> vector_of(split_file(or, F[p[1]])[p[2]])] :
            p \in {q \in UNION {{<<i, k>> : k \in 1..Len(split_file(or, F[i]))} :
                                    i \in 1..Len(F)} :
                      \A k \in (q[2] + 1)..Len(split_file(or, F[q[1]])) :
                          Id(q[1], k) # Id(q[1], q[2])}}

\* C30: after a run without failures the documents of the repository
\* (chunk_id, file_path, content, embedding) are those told by the file
\* listing, in whatever order the file tasks completed.
C30_StoreIndependentOfCompletionOrder ==
    (RunEnded /\ Clean /\ all_chunks # <<>>) =>
        {Stored(d) : d \in RepoDocs(es.docs, owner_repo)} = ListedDocs(owner_repo)

\* C30 witness: a run without failures collected the second file of the
\* listing first, and its documents are in the store.
C30_Witness ==
    /\ RunEnded /\ Clean /\ Len(files) = 2
    /\ all_chunk_metadata # <<>> /\ all_chunk_metadata[1][1] = files[2]
    /\ Cardinality(RunDocs) >= 2
    /\ {Stored(d) : d \in RepoDocs(es.docs, owner_repo)} = ListedDocs(owner_repo)

----------------------------------------------------------------------------
(* Claims about the readers (ReadSpec) *)

\* C7: search_similar_chunks, the ensure_index(recreate_if_invalid=False) it
\* calls and _fetch_chunks leave the index, its mapping and its documents as
\* they were, whatever state the store is in; ensure_index(False) answers
\* (True only for a valid index) and lets no exception out.
C7_ReadersNeverWrite ==
    [][/\ es' = es
       /\ call'.op = "search_similar_chunks" =>
             /\ call'.probe \in {"unasked", "true", "false"}
             /\ call'.probe = "true" => Valid(es)]_vars

\* C7 witness: search_similar_chunks asked ensure_index about an index that
\* holds documents and lacks the embedding field, and was answered False.
C7_Witness ==
    /\ call.op = "search_similar_chunks"
    /\ call.probe = "false"
    /\ es.exists /\ es.embedding = NoField /\ es.docs # {}
    /\ call.clauses = {"multi_match"}

\* C10: in the list _fetch_chunks returns from the embedding path and from
\* the fallback path, no file that is not critical has more than 5 chunks.
C10_AtMostFivePerFile ==
    (call.op = "_fetch_chunks" /\ call.path \in {"embedding", "fallback"}) =>
        \A i \in 1..Len(call.chunks) :
            ~_is_critical_file(call.chunks[i].file_path) =>
                CountPath(call.chunks, call.chunks[i].file_path) <= 5

\* C10 witness: the embedding path returned 5 chunks of a file that is not
\* critical and has more than 5 embedded chunks in a valid index.
C10_Witness ==
    /\ call.op = "_fetch_chunks" /\ call.path = "embedding" /\ ~call.raised
    /\ Valid(es)
    /\ Cardinality({d \in RepoDocs(es.docs, call.owner_repo) :
                       d.file_path = "big.py" /\ HasEmbedding(d)}) > 5
    /\ ~_is_critical_file("big.py")
    /\ CountPath(call.chunks, "big.py") = 5

\* the same on the fallback path, where chunks need no embedding
C10_FallbackReached ==
    /\ call.op = "_fetch_chunks" /\ call.path = "fallback" /\ ~call.raised
    /\ Cardinality({d \in RepoDocs(es.docs, call.owner_repo) : d.file_path = "legacy.py"}) > 5
    /\ ~_is_critical_file("legacy.py")
    /\ CountPath(call.chunks, "legacy.py") = 5
    /\ CountPath(call.chunks, "big.py") = 5

\* the wildcard "*suffix" of some critical suffix matches the path
MatchesCriticalSuffix(file_path) ==
    \E i \in 1..Len(CRITICAL_FILE_SUFFIXES) : EndsWith(file_path, CRITICAL_FILE_SUFFIXES[i])

\* the paths of the chunks the semantic searches returned
RetrievedPaths(e, or, env) ==
    LET lists == chunk_lists(e, or, env)
    IN  {lists[q][i].file_path : <<q, i>> \in
            {<<q, i>> \in (1..Len(lists)) \X (1..20) : i <= Len(lists[q])}}

\* a call of _fetch_chunks on the embedding path that the store answered
RankedAnswered ==
    /\ call.op = "_fetch_chunks" /\ call.path = "embedding" /\ ~call.raised
    /\ call.env.trouble = "none"

HasChunkOf(chunks, file_path) == \E i \in 1..Len(chunks) : chunks[i].file_path = file_path

\* C11 (as claimed): when the store answers, every file of the repository
\* that matches a critical suffix and of which no semantic search returned a
\* chunk has a chunk in the list the embedding path returns.
C11_UnretrievedManifestIncluded ==
    RankedAnswered =>
        \A d \in RepoDocs(es.docs, call.owner_repo) :
            (/\ MatchesCriticalSuffix(d.file_path)
             /\ d.file_path \notin RetrievedPaths(es, call.owner_repo, call.env))
            => HasChunkOf(call.chunks, d.file_path)

\* C12 (as claimed): when the store answers, for every critical suffix that
\* some file of the repository matches, the list the embedding path returns
\* holds a chunk of a file matching that suffix.
C12_EveryCriticalPatternPresent ==
    RankedAnswered =>
        \A s \in 1..Len(CRITICAL_FILE_SUFFIXES) :
            (\E d \in RepoDocs(es.docs, call.owner_repo) :
                EndsWith(d.file_path, CRITICAL_FILE_SUFFIXES[s]))
            => \E i \in 1..Len(call.chunks) :
                  EndsWith(call.chunks[i].file_path, CRITICAL_FILE_SUFFIXES[s])

\* the distinct files the repository has in the index
DistinctFiles(docs, or) == {d.file_path : d \in RepoDocs(docs, or)}

\* C16 (as claimed): the list repository-wide retrieval returns has at most K
\* chunks, K being 100, 75 or 50 for a repository of fewer than 50, fewer
\* than 500 or more distinct files, and no chunk of it has a field _score,
\* _boost_applied or _critical.
C16_AtMostKForRepoSize ==
    (call.op = "_fetch_chunks" /\ call.path \in {"embedding", "fallback"} /\ ~call.raised) =>
        /\ Len(call.chunks) <=
              _calculate_chunk_limit(Cardinality(DistinctFiles(es.docs, call.owner_repo)))
        /\ \A i \in 1..Len(call.chunks) :
              DOMAIN call.chunks[i] \cap {"_score", "_boost_applied", "_critical"} = {}

\* C13 (as claimed): when the store answers, the list the fallback path
\* returns is ordered by score, highest first, has no two chunks of equal
\* content, has at most 5 chunks of a file that is not critical and has a
\* chunk of every file of the repository that matches a critical suffix.
C13_FallbackKeepsContract ==
    (/\ call.op = "_fetch_chunks" /\ call.path = "fallback" /\ ~call.raised
     /\ call.env.trouble \in {"none", "embed"}) =>
        /\ \A i, j \in 1..Len(call.chunks) :
              i < j => /\ _calculate_heuristic_score(call.chunks[i].content)
                            >= _calculate_heuristic_score(call.chunks[j].content)
                       /\ call.chunks[i].content # call.chunks[j].content
        /\ \A i \in 1..Len(call.chunks) :
              ~_is_critical_file(call.chunks[i].file_path) =>
                  CountPath(call.chunks, call.chunks[i].file_path) <= 5
        /\ \A d \in RepoDocs(es.docs, call.owner_repo) :
              MatchesCriticalSuffix(d.file_path) => HasChunkOf(call.chunks, d.file_path)

\* the stored document a result of search_similar_chunks was made from
HitDoc(r) == CHOOSE d \in es.docs : d.chunk_id = r.chunk_id

\* C14: a query search_similar_chunks sends always has the keyword clause,
\* and has the vector clause exactly when the API key and the embedding
\* library are there and ensure_index(False) answered True, which it does
\* only for a valid index; when the store answers and one of the three is
\* missing, the keyword-only query is still sent; every result matches the
\* keyword clause or, the vector clause sent, has an embedding, and lies
\* within the repository filter; there are at most top_k results.
C14_HybridQueryAlternatives ==
    call.op = "search_similar_chunks" =>
        LET capable == openai_api_key /\ openai_available
            ready == call.probe = "true"
        IN  /\ call.clauses # {} =>
                  /\ "multi_match" \in call.clauses
                  /\ "script_score" \in call.clauses <=> (capable /\ ready)
            /\ ready => (capable /\ Valid(es))
            /\ (es.exists /\ call.env.trouble = "none" /\ ~(capable /\ Valid(es)))
                  => call.clauses = {"multi_match"}
            /\ call.clauses = {} => call.results = <<>>
            /\ Len(call.results) <= call.top_k
            /\ \A i \in 1..Len(call.results) :
                  /\ \E d \in es.docs : d.chunk_id = call.results[i].chunk_id
                  /\ \/ keyword_match(HitDoc(call.results[i]), call.query)
                     \/ /\ "script_score" \in call.clauses
                        /\ HasEmbedding(HitDoc(call.results[i]))
                  /\ call.repo_filter # <<>> =>
                        <<call.results[i].repo_owner, call.results[i].repo_name>>
                            = call.repo_filter

\* C14 witness: a query with both clauses returned top_k results, one of
\* them on the vector clause alone and one on the keyword clause.
C14_Witness ==
    /\ call.op = "search_similar_chunks"
    /\ call.clauses = {"script_score", "multi_match"}
    /\ call.top_k = 5 /\ Len(call.results) = 5
    /\ \E i \in 1..Len(call.results) :
          ~keyword_match(HitDoc(call.results[i]), call.query)
    /\ \E i \in 1..Len(call.results) :
          keyword_match(HitDoc(call.results[i]), call.query)

\* the same without the capability: the keyword-only query found its hits
C14_KeywordOnlyReached ==
    /\ call.op = "search_similar_chunks"
    /\ ~openai_api_key /\ Valid(es)
    /\ call.clauses = {"multi_match"}
    /\ call.results # <<>>

\* C15 (as claimed): no exception leaves search_similar_chunks or
\* _fetch_chunks, in file mode, on the embedding path or on the fallback
\* path, and when a call of the store raises, the index-existence probe
\* included, the list returned is empty.
C15_RetrievalFailureGivesEmptyList ==
    /\ call.op = "search_similar_chunks" =>
          (call.env.trouble \in {"exists", "search"} => call.results = <<>>)
    /\ call.op = "_fetch_chunks" =>
          /\ ~call.raised
          /\ call.env.trouble \in {"exists", "search"} => call.chunks = <<>>

----------------------------------------------------------------------------
(* Claims about the chunking stage (PoolSpec) *)

\* the place of a file task in its life
TaskRank(w) ==
    CASE w = "queued" -> 0 [] w = "running" -> 1 [] w \in FetchOutcomes -> 2
      [] w = "collected" -> 3

\* the two lists grow together; the chunks of a collected file stand
\* together, whole and in their order, and no other file has a chunk in the
\* lists
CollectedWhole ==
    /\ Len(all_chunks) = Len(all_chunk_metadata)
    /\ \A j \in 1..Len(all_chunk_metadata) :
          LET m == all_chunk_metadata[j]
          IN  /\ m[2] > 1 => (j > 1 /\ all_chunk_metadata[j - 1] = <<m[1], m[2] - 1>>)
              /\ all_chunks[j] = split_file(owner_repo, m[1])[m[2]]
    /\ \A i \in DOMAIN workers :
          /\ Cardinality({j \in 1..Len(all_chunk_metadata) :
                              all_chunk_metadata[j][1] = files[i]}) =
                IF workers[i] = "collected" /\ files[i] \notin skipped
                THEN Len(split_file(owner_repo, files[i])) ELSE 0
          /\ Cardinality({j \in 1..Len(all_chunk_metadata) :
                              all_chunk_metadata[j] = <<files[i], 1>>}) <= 1

\* C21: at most min(7, number of files) file tasks run at a time; a task
\* is run once and collected once; only the collecting thread appends to
\* the two lists, a file's chunks at a time, so the lists have equal length
\* and hold every collected file's chunks whole; the embedding stage is
\* entered only when every task was collected.
C21_BoundedPoolSingleCollector ==
    /\ [](/\ Cardinality(Running) <= Min(7, Len(files))
          /\ DOMAIN workers = 1..Len(files) \/ workers = <<>>
          /\ CollectedWhole
          /\ pc \in {"embed", "bulk", "refresh"} =>
                \A i \in DOMAIN workers : workers[i] = "collected")
    /\ [][(pc = "chunking" /\ pc' # "idle") =>
             /\ \A i \in DOMAIN workers :
                   /\ TaskRank(workers'[i]) \in {TaskRank(workers[i]), TaskRank(workers[i]) + 1}
                   /\ (workers[i] \in FetchOutcomes /\ workers'[i] # "collected") =>
                         workers'[i] = workers[i]
             /\ (all_chunks' # all_chunks \/ all_chunk_metadata' # all_chunk_metadata) =>
                   \E i \in DOMAIN workers :
                       /\ workers[i] \in FetchOutcomes /\ workers'[i] = "collected"
                       /\ \A j \in DOMAIN workers \ {i} : workers'[j] = workers[j]]_vars

\* C21 witness: every worker of the pool is running a file task while
\* another file waits, and a file that finished was collected.
C21_Witness ==
    /\ pc = "chunking" /\ Len(files) > repo_worker_min_count
    /\ Cardinality(Running) = repo_worker_min_count
    /\ \E i \in DOMAIN workers : workers[i] = "queued"

\* every file task was collected, in another order than submitted, and the
\* embedding stage is entered
C21_AllCollectedReached ==
    /\ pc = "embed" /\ Len(files) > repo_worker_min_count
    /\ \A i \in DOMAIN workers : workers[i] = "collected"
    /\ skipped = {} /\ all_chunk_metadata[1][1] # files[1]

----------------------------------------------------------------------------
(* Claims about the stages of the ranking pipeline (RankSpec) *)

Merged == call.op = "_merge_and_deduplicate_chunks"

\* the positions of a content in the lists taken in order
Occurrences(chunks, content) == {j \in 1..Len(chunks) : chunks[j].content = content}

\* the least element of a non-empty set of numbers
Least(S) == CHOOSE x \in S : \A y \in S : x <= y

\* C22: the merged list has no content twice, has every content of the
\* input lists, holds for each content the chunk of its first occurrence
\* (lists in the order given, then position) with that chunk's score, and
\* is sorted by score, highest first.
C22_MergeKeepsFirstOccurrence ==
    Merged =>
        LET inp == Flatten(call.chunk_lists)
            out == call.chunks
        IN  /\ \A i, j \in 1..Len(out) : i # j => out[i].content # out[j].content
            /\ {out[i].content : i \in 1..Len(out)} = {inp[j].content : j \in 1..Len(inp)}
            /\ \A i \in 1..Len(out) : out[i] = inp[Least(Occurrences(inp, out[i].content))]
            /\ \A i \in 1..(Len(out) - 1) : out[i]._score >= out[i + 1]._score

\* C22 witness: a content was returned by several queries with different
\* scores, for two different files, and the first occurrence was not the
\* one of the highest score.
C22_Witness ==
    /\ Merged
    /\ LET inp == Flatten(call.chunk_lists)
       IN  \E i, j \in 1..Len(inp) :
              /\ i = Least(Occurrences(inp, inp[i].content)) /\ i < j
              /\ inp[j].content = inp[i].content
              /\ inp[j]._score > inp[i]._score
              /\ inp[j].file_path # inp[i].file_path
              /\ \E r \in 1..Len(call.chunks) : call.chunks[r] = inp[i]

\* C23: the merge of the lists in any order they are given is the merge of
\* the lists in the order the queries were issued: the same chunks with the
\* same scores in the same sequence.
C23_MergeIndependentOfListOrder ==
    Merged => call.chunks = _merge_and_deduplicate_chunks(call.issued)

Boosted == call.op = "_apply_boosting"

\* the increment of a content, in tenths: the weight of each category that
\* has a pattern in the content, once
CategoryHit(content, i) ==
    \E j \in 1..Len(SECURITY_HEURISTIC_PATTERNS[i].patterns) :
        Contains(Lower(content), Lower(SECURITY_HEURISTIC_PATTERNS[i].patterns[j]))

RECURSIVE HeuristicIncrement(_, _)
HeuristicIncrement(content, i) ==
    IF i = 0 THEN 0
    ELSE HeuristicIncrement(content, i - 1)
         + (IF CategoryHit(content, i)
            THEN category_weight(SECURITY_HEURISTIC_PATTERNS[i].category) ELSE 0)

\* the file increment, in tenths: 5 for a path that ends with an entry of
\* CRITICAL_FILE_SUFFIXES, else 3 for a path with a high-risk substring
FileIncrement(file_path) ==
    IF MatchesCriticalSuffix(file_path) THEN 5
    ELSE IF _is_high_risk_file(file_path) THEN 3 ELSE 0

\* C24: each chunk of the boosted list is a chunk of the input with its
\* score multiplied by 1 + f + h: f for its path, h the sum over the
\* categories found in its content; the multiplier is between 1.0 and 2.8,
\* no score is lowered, and the list is sorted by boosted score, highest
\* first.
C24_BoostIsOnePlusFilePlusHeuristic ==
    Boosted =>
        LET inp == call.input
            out == call.chunks
        IN  /\ Len(out) = Len(inp)
            /\ \A c \in 1..Len(inp) :
                  LET m == 10 + FileIncrement(inp[c].file_path)
                              + HeuristicIncrement(inp[c].content,
                                                   Len(SECURITY_HEURISTIC_PATTERNS))
                  IN  /\ m >= 10 /\ m <= 28
                      /\ \E r \in 1..Len(out) :
                            /\ out[r].content = inp[c].content
                            /\ out[r].file_path = inp[c].file_path
                            /\ out[r]._boost_applied = m
                            /\ out[r]._score * 10 = inp[c]._score * m
                            /\ out[r]._score >= inp[c]._score
            /\ \A i \in 1..(Len(out) - 1) : out[i]._score >= out[i + 1]._score

Diversified == call.op = "_ensure_diversity"

\* C25: the diversity stage keeps every chunk of a path that ends with an
\* entry of CRITICAL_FILE_SUFFIXES and, of every other file, the first
\* max_per_file chunks, in the order they had.
C25_CriticalSuffixAlwaysKept ==
    Diversified =>
        call.chunks =
            Pick(call.input,
                 {i \in 1..Len(call.input) :
                     \/ MatchesCriticalSuffix(call.input[i].file_path)
                     \/ Cardinality({j \in 1..(i - 1) :
                            call.input[j].file_path = call.input[i].file_path})
                          < call.max_per_file})

----------------------------------------------------------------------------
(* Claims about the scope of the readers (ReadSpec) *)

\* the chunk is the source of a document stored for the repository
StoredFor(chunk, or) == \E d \in RepoDocs(es.docs, or) : Source(d) = chunk

\* C26: a file-scoped retrieval returns at most 10 chunks, each the source
\* of a document stored under the requested owner, name and path; a
\* repository-wide retrieval (ranked, with forced critical chunks, or
\* fallback) returns only sources of documents stored for the requested
\* repository; search_similar_chunks with a repository filter returns only
\* documents of that repository, with their stored content and path.
C26_ResultsWithinRequestedScope ==
    /\ call.op = "_fetch_chunks" =>
          /\ \A i \in 1..Len(call.chunks) :
                /\ StoredFor(call.chunks[i], call.owner_repo)
                /\ call.chunks[i].repo_owner = call.owner_repo[1]
                /\ call.chunks[i].repo_name = call.owner_repo[2]
                /\ call.file_path # "" => call.chunks[i].file_path = call.file_path
          /\ call.file_path # "" => Len(call.chunks) <= 10
    /\ (call.op = "search_similar_chunks" /\ call.repo_filter # <<>>) =>
          \A i \in 1..Len(call.results) :
              LET r == call.results[i]
              IN  /\ r.repo_owner = call.repo_filter[1] /\ r.repo_name = call.repo_filter[2]
                  /\ \E d \in RepoDocs(es.docs, call.repo_filter) :
                        /\ d.chunk_id = r.chunk_id /\ d.content = r.content
                        /\ d.file_path = r.file_path

\* C26 witness: a file-scoped retrieval of big.py from a repository that
\* stores eleven chunks of it returned ten, while other repositories, one
\* of the same name, store chunks of a file of that path.
C26_Witness ==
    /\ call.op = "_fetch_chunks" /\ call.file_path = "big.py" /\ ~call.raised
    /\ Len(call.chunks) = 10
    /\ Cardinality({d \in RepoDocs(es.docs, call.owner_repo) : d.file_path = "big.py"}) > 10
    /\ \E d \in es.docs :
          /\ d.file_path = "big.py" /\ d.repo_name = call.owner_repo[2]
          /\ d.repo_owner # call.owner_repo[1]

\* a filtered search and a repository-wide retrieval returned chunks while
\* the store holds other repositories
C26_FilteredSearchReached ==
    /\ call.op = "search_similar_chunks" /\ call.repo_filter # <<>>
    /\ Len(call.results) > 1
    /\ \E d \in es.docs \ RepoDocs(es.docs, call.repo_filter) : keyword_match(d, call.query)


====
